---- MODULE Spec2Model ----
(***************************************************************************)
(* The agent loop (internal/agent), the parallel tool executor             *)
(* (internal/tools/manager.go) and the session they drive, as a state      *)
(* machine.  One run of Agent.loop on one session; the model client, the   *)
(* tools and the cancellation token are the environment.                   *)
(***************************************************************************)
EXTENDS Integers, Sequences, FiniteSets, TLC

\* ------------------------------------------------------------------ bounds

\* Longest message history a session has when a run starts.
MaxHist == 2
\* Longest history handed to the repair when it is checked on its own.
MaxRepairLen == 4
\* Turns of a run in which the model client answers freely; in later turns it
\* keeps asking for the same tool call (or ends the run).
MaxVariedTurns == 1

\* ------------------------------------------------------- program constants

\* config.MaxSteps when the caller leaves it at 0 (New).
DefaultMaxSteps == 50

\* ------------------------------------------------------------------- data

StatusCreated == "created"
StatusRunning == "running"
StatusCompleted == "completed"
StatusFailed == "failed"
StatusPaused == "paused"

NoErr == "nil"
ErrCanceled == "context canceled"

ZeroUsage == [InputTokens |-> 0, OutputTokens |-> 0]

Usage(i, o) == [InputTokens |-> i, OutputTokens |-> o]

\* session.Message: role, content, tool calls, tool results.
Msg(role, content, tcs, trs) ==
  [role |-> role, content |-> content, toolCalls |-> tcs, toolResults |-> trs]

\* llm.ToolCall / session.ToolCall.
Call(id, name) == [id |-> id, name |-> name, input |-> "{}"]

\* llm.ToolResult / session.ToolResult.
Result(id, content, isError) ==
  [toolCallId |-> id, content |-> content, isError |-> isError]

\* The zero value of llm.ToolResult, which make() fills the result slice with.
ZeroResult == Result("", "", FALSE)

Call1 == Call("call_1", "bash")
Call2 == Call("call_2", "nosuch")

\* The tools NewManager registers.
Registered == {"bash", "read", "write", "edit", "glob", "grep"}

\* What a registered tool's Execute can hand back: (*Result, error).
Outcome(err, success, output, error) ==
  [err |-> err, success |-> success, output |-> output, error |-> error]

OkOutcome == Outcome(NoErr, TRUE, "out", "")

ToolOutcomes ==
  { OkOutcome,
    Outcome(NoErr, FALSE, "", "no match"),
    Outcome("read failure", FALSE, "", "") }

\* llm.ChatResponse values the model client can return.
Response(content, calls, usage) ==
  [content |-> content, calls |-> calls, usage |-> usage]

StubbornResponse == Response("", <<Call1>>, Usage(5, 2))

VariedResponses ==
  { Response("done", <<>>, Usage(3, 1)),
    Response("", <<>>, Usage(2, 1)),
    StubbornResponse,
    Response("plan", <<Call1, Call2>>, Usage(4, 1)) }

LateResponses == { Response("done", <<>>, Usage(3, 1)), StubbornResponse }

\* ------------------------------------------------------------- histories

UserMsg == Msg("user", "task", <<>>, <<>>)
FinalMsg == Msg("assistant", "done", <<>>, <<>>)
CallMsg == Msg("assistant", "", <<Call1>>, <<>>)
ToolMsg == Msg("tool", "", <<>>, <<Result("call_1", "out", FALSE)>>)

HistMsgs == {UserMsg, FinalMsg, CallMsg, ToolMsg}

SeqsUpTo(S, n) == UNION {[1..k -> S] : k \in 0..n}

IsToolTurn(m) == m.role = "assistant" /\ Len(m.toolCalls) > 0

\* Histories earlier runs and callers leave behind: the first message is the
\* user's, a tool message only ever follows the assistant message it answers,
\* and an interrupted run may have left an assistant message unanswered.
Histories ==
  { h \in SeqsUpTo(HistMsgs, MaxHist) :
      /\ Len(h) >= 1
      /\ h[1] = UserMsg
      /\ \A i \in 1..Len(h) : h[i].role = "tool" => (i > 1 /\ h[i-1] = CallMsg) }

HasRun(h) == \E i \in 1..Len(h) : h[i].role # "user"

HasDangling(h) ==
  \E i \in 1..Len(h) :
    IsToolTurn(h[i]) /\ (i = Len(h) \/ h[i + 1].role # "tool")

\* The status the session was left with: created by session.New, failed by a
\* run that never got an answer, paused by an interrupted run, completed
\* otherwise.
StatusFor(h) ==
  IF Len(h) = 1 THEN StatusCreated
  ELSE IF ~HasRun(h) THEN StatusFailed
  ELSE IF HasDangling(h) THEN StatusPaused
  ELSE StatusCompleted

\* ------------------------------------------------------- session methods

\* Session.AddAssistantMessage and Session.AddToolResult, after the data model:
\* each appends one message of its role to the session.

AddAssistantMessage(msgs, content, tcs) ==
  Append(msgs, Msg("assistant", content, tcs, <<>>))

AddToolResult(msgs, trs) == Append(msgs, Msg("tool", "", <<>>, trs))

\* ------------------------------------------------------------ agent code

\* New: the step limit the agent runs with.
New(maxSteps) == IF maxSteps = 0 THEN DefaultMaxSteps ELSE maxSteps

\* Faulty variant of the step limit check: off by one.
AtLimit_OffByOne(s, maxSteps) == s > maxSteps

\* loop, line 103: the step limit check.
AtLimit(s, maxSteps) == s >= maxSteps

\* Faulty variant of the removal: drops the message and everything after it.
RemoveAt_Truncate(s, i) == SubSeq(s, 1, i - 1)

\* cleanupIncompleteToolCalls, line 282: the messages without the one at i.
RemoveAt(s, i) == SubSeq(s, 1, i - 1) \o SubSeq(s, i + 1, Len(s))

\* The body of cleanupIncompleteToolCalls's loop at (1-based) index i.
RECURSIVE CleanupFrom(_, _)
CleanupFrom(msgs, i) ==
  IF i < 1 THEN msgs
  ELSE IF IsToolTurn(msgs[i])
          /\ ~(i + 1 <= Len(msgs) /\ msgs[i + 1].role = "tool")
    THEN CleanupFrom(RemoveAt(msgs, i), i - 1)
    ELSE CleanupFrom(msgs, i - 1)

cleanupIncompleteToolCalls(msgs) ==
  IF Len(msgs) = 0 THEN msgs ELSE CleanupFrom(msgs, Len(msgs))

RECURSIVE LastContentFrom(_, _)
LastContentFrom(msgs, i) ==
  IF i < 1 THEN ""
  ELSE IF msgs[i].role = "assistant" /\ msgs[i].content # ""
    THEN msgs[i].content
    ELSE LastContentFrom(msgs, i - 1)

\* Faulty variant: scans from the oldest message instead of the newest.
RECURSIVE FirstContentFrom(_, _)
FirstContentFrom(msgs, i) ==
  IF i > Len(msgs) THEN ""
  ELSE IF msgs[i].role = "assistant" /\ msgs[i].content # ""
    THEN msgs[i].content
    ELSE FirstContentFrom(msgs, i + 1)

getLastAssistantContent_First(msgs) == FirstContentFrom(msgs, 1)

getLastAssistantContent(msgs) == LastContentFrom(msgs, Len(msgs))

\* buildRequest: the message history as the model client receives it.
buildRequest(msgs) ==
  [i \in 1..Len(msgs) |->
     [role |-> msgs[i].role, content |-> msgs[i].content,
      toolCalls |-> [j \in 1..Len(msgs[i].toolCalls) |->
                       Call(msgs[i].toolCalls[j].id, msgs[i].toolCalls[j].name)],
      toolResults |-> [j \in 1..Len(msgs[i].toolResults) |->
                         Result(msgs[i].toolResults[j].toolCallId,
                                msgs[i].toolResults[j].content,
                                msgs[i].toolResults[j].isError)]]]

\* loop, lines 139-147: the response's tool calls as the session stores them.
SessionToolCalls(calls) ==
  [i \in 1..Len(calls) |-> Call(calls[i].id, calls[i].name)]

\* loop, lines 158-166: the executor's results as the session stores them.
SessionResults(trs) ==
  [i \in 1..Len(trs) |-> Result(trs[i].toolCallId, trs[i].content, trs[i].isError)]

\* ------------------------------------------------------------ tool code

\* Manager.Execute: an unknown name is an error, else the tool decides.
Execute(name, outcome) ==
  IF name \notin Registered
    THEN Outcome("tool not found: " \o name, FALSE, "", "")
    ELSE outcome

\* Faulty variant: the error branches build a result without the call id.
ToolResultOf_ErrNoId(tc, res) ==
  IF res.err # NoErr THEN Result("", "Error: " \o res.err, TRUE)
  ELSE IF ~res.success THEN Result("", "Error: " \o res.error, TRUE)
  ELSE Result(tc.id, res.output, FALSE)

\* ExecuteParallel's goroutine, lines 88-100: the result built for one call.
ToolResultOf(tc, res) ==
  IF res.err # NoErr THEN Result(tc.id, "Error: " \o res.err, TRUE)
  ELSE IF ~res.success THEN Result(tc.id, "Error: " \o res.error, TRUE)
  ELSE Result(tc.id, res.output, FALSE)

\* Faulty variant: results are stored in the order the goroutines finish.
StoreResult_Append(rs, idx, tr) ==
  LET free == {i \in 1..Len(rs) : rs[i] = ZeroResult}
      slot == IF free = {} THEN idx
              ELSE CHOOSE i \in free : \A j \in free : i <= j
  IN [rs EXCEPT ![slot] = tr]

\* ExecuteParallel's goroutine, line 102: results[idx] = tr.
StoreResult(rs, idx, tr) == [rs EXCEPT ![idx] = tr]

\* ------------------------------------------------------------- cron code

\* Times are whole seconds since 2025-01-01T00:00:00Z, a Wednesday.

\* time.Time{}: the zero time, year 1, before every other time.
ZeroTime == -1

\* A nil *time.Time: LastRunAt, NextRunAt, FinishedAt not set; also a ticker
\* that has no tick to come.
NilTime == -2

Second(t) == t % 60
Minute(t) == (t \div 60) % 60
Hour(t) == (t \div 3600) % 24
DayOf(t) == t \div 86400

\* time.Weekday: Sunday is 0.
Weekday(t) == (DayOf(t) + 3) % 7

YearDays(y) == IF y % 4 = 0 THEN 366 ELSE 365

MonthDays(y, m) ==
  IF m = 2 THEN (IF y % 4 = 0 THEN 29 ELSE 28)
  ELSE IF m \in {4, 6, 9, 11} THEN 30
  ELSE 31

RECURSIVE YearFrom(_, _)
YearFrom(d, y) ==
  IF d < YearDays(y) THEN [year |-> y, yday |-> d]
  ELSE YearFrom(d - YearDays(y), y + 1)

RECURSIVE MonthFrom(_, _, _)
MonthFrom(d, y, m) ==
  IF d < MonthDays(y, m) THEN [month |-> m, day |-> d + 1]
  ELSE MonthFrom(d - MonthDays(y, m), y, m + 1)

\* t.Year(), t.Month(), t.Day().
Date(t) ==
  LET yd == YearFrom(DayOf(t), 2025)
      md == MonthFrom(yd.yday, yd.year, 1)
  IN [year |-> yd.year, month |-> md.month, day |-> md.day]

\* The start of the next month, day, hour and minute after t: what one turn
\* of the corresponding loop of Next makes of t.
NextMonthStart(t) ==
  LET d == Date(t)
  IN (DayOf(t) + MonthDays(d.year, d.month) - d.day + 1) * 86400

NextDayStart(t) == (DayOf(t) + 1) * 86400
NextHourStart(t) == ((t \div 3600) + 1) * 3600
NextMinuteStart(t) == ((t \div 60) + 1) * 60

\* cron.SpecSchedule as the five-field parser builds it: the values each
\* field admits, and whether day-of-month and day-of-week were "*".
Schedule(minute, hour, dom, month, dow, domStar, dowStar) ==
  [minute |-> minute, hour |-> hour, dom |-> dom, month |-> month, dow |-> dow,
   domStar |-> domStar, dowStar |-> dowStar]

EveryStep(lo, hi, n) == {v \in lo..hi : (v - lo) % n = 0}

\* parser.Parse on the expressions of the model.
Parse(expr) ==
  CASE expr = "* * * * *" ->
         Schedule(0..59, 0..23, 1..31, 1..12, 0..6, TRUE, TRUE)
    [] expr = "*/2 * * * *" ->
         Schedule(EveryStep(0, 59, 2), 0..23, 1..31, 1..12, 0..6, TRUE, TRUE)
    [] expr = "*/15 * * * *" ->
         Schedule(EveryStep(0, 59, 15), 0..23, 1..31, 1..12, 0..6, TRUE, TRUE)
    [] expr = "0 19 * * *" ->
         Schedule({0}, {19}, 1..31, 1..12, 0..6, TRUE, TRUE)
    [] expr = "0 9 * * 1" ->
         Schedule({0}, {9}, 1..31, 1..12, {1}, TRUE, FALSE)
    [] expr = "30 8 1 * 1-5" ->
         Schedule({30}, {8}, {1}, 1..12, 1..5, FALSE, FALSE)
    [] expr = "0 0 31 12 *" ->
         Schedule({0}, {0}, {31}, {12}, 0..6, FALSE, TRUE)
    [] expr = "0 0 30 2 *" ->
         Schedule({0}, {0}, {30}, {2}, 0..6, FALSE, TRUE)

\* dayMatches of the cron package.
DayMatches(s, t) ==
  LET domMatch == Date(t).day \in s.dom
      dowMatch == Weekday(t) \in s.dow
  IN IF s.domStar \/ s.dowStar THEN domMatch /\ dowMatch
     ELSE domMatch \/ dowMatch

\* The month loop of SpecSchedule.Next, run to its end: the start of the
\* first later month of t's year that the schedule admits, or of the next
\* year.
MonthLoop(s, t) ==
  LET d == Date(t)
      RECURSIVE Skip(_, _)
      Skip(u, m) ==
        IF m > 12 \/ m \in s.month THEN u
        ELSE Skip(u + MonthDays(d.year, m) * 86400, m + 1)
  IN Skip(NextMonthStart(t), d.month + 1)

\* The day loop of SpecSchedule.Next, run to its end: the start of the first
\* later day of t's month that matches, or of the next month.
DayLoop(s, t) ==
  LET d == Date(t)
      RECURSIVE Skip(_, _)
      Skip(u, day) ==
        IF day > MonthDays(d.year, d.month) \/ DayMatches(s, u) THEN u
        ELSE Skip(u + 86400, day + 1)
  IN Skip(NextDayStart(t), d.day + 1)

Least(S) == CHOOSE x \in S : \A y \in S : x <= y

\* The hour loop of SpecSchedule.Next, run to its end: the start of the first
\* later hour of t's day that the schedule admits, or of the next day.
HourLoop(s, t) ==
  LET later == {h \in s.hour : h > Hour(t)}
  IN IF later = {} THEN NextDayStart(t)
     ELSE DayOf(t) * 86400 + Least(later) * 3600

\* The minute loop, likewise: the first later minute of t's hour that the
\* schedule admits, or the start of the next hour.
MinuteLoop(s, t) ==
  LET later == {m \in s.minute : m > Minute(t)}
  IN IF later = {} THEN NextHourStart(t)
     ELSE (t \div 3600) * 3600 + Least(later) * 60

\* SpecSchedule.Next from t on: the first field that does not match moves t
\* on to the start of the next unit it admits, and the search starts over;
\* past the year limit it gives up with the zero time.  The seconds field of
\* a five-field schedule admits second 0 only.
RECURSIVE NextFrom(_, _, _)
NextFrom(s, t, yearLimit) ==
  IF Date(t).year > yearLimit THEN ZeroTime
  ELSE IF Date(t).month \notin s.month THEN NextFrom(s, MonthLoop(s, t), yearLimit)
  ELSE IF ~DayMatches(s, t) THEN NextFrom(s, DayLoop(s, t), yearLimit)
  ELSE IF Hour(t) \notin s.hour THEN NextFrom(s, HourLoop(s, t), yearLimit)
  ELSE IF Minute(t) \notin s.minute THEN NextFrom(s, MinuteLoop(s, t), yearLimit)
  ELSE IF Second(t) # 0 THEN NextFrom(s, NextMinuteStart(t), yearLimit)
  ELSE t

\* Faulty variant: the search starts at t itself instead of the next second.
ScheduleNext_Inclusive(s, t) == NextFrom(s, t, Date(t).year + 5)

\* SpecSchedule.Next: the search starts at the second after t and looks five
\* years ahead.
ScheduleNext(s, t) == NextFrom(s, t + 1, Date(t + 1).year + 5)

\* calculateNextRun, for an expression the parser accepts.
calculateNextRun(cronExpr, after) == ScheduleNext(Parse(cronExpr), after)

\* ------------------------------------------------------------------ state

VARIABLES
  sess,        \* the in-memory session: status and messages
  stored,      \* what the last sessionManager.Save of this run wrote
  pc,          \* where the loop is: start, top, llm, tools, returned
  step,        \* loop's step counter
  cfgMaxSteps, \* Config.MaxSteps as the caller passed it to New
  totalUsage,  \* loop's running total
  cancelled,   \* ctx.Err() != nil
  request,     \* the messages of the chat request in flight
  calls,       \* the tool calls handed to ExecuteParallel
  results,     \* ExecuteParallel's result slice
  pending,     \* indexes of the goroutines that have not finished
  ret,         \* what loop returned: content, usage, error
  hist0,       \* the messages the session had when the run started
  responses,   \* every response the model client returned in this run
  llmCalls,    \* how many times the model client was called in this run
  finished,    \* the current batch's goroutines in the order they finished,
               \* each with what Manager.Execute returned to it
  toolRuns     \* the current batch's tool executions: for each call that ran,
               \* whether the token was triggered and whether it wrote a file

agentVars == <<sess, stored, pc, step, cfgMaxSteps, totalUsage, cancelled, request,
          calls, results, pending, ret, hist0, responses, llmCalls, finished>>

dispatchVars == <<toolRuns>>

VARIABLES
  cronIn,      \* a cron expression and a time handed to calculateNextRun
  cronOut      \* what calculateNextRun returned for them, call after call

cronVars == <<cronIn, cronOut>>

VARIABLES
  now,         \* time.Now()
  nextTick,    \* when the scheduler's ticker fires next
  sched,       \* the Scheduler: running, ticker, stopChan, its loop goroutine,
               \* the context Start was given, and where a call of Stop is
  jobs,        \* the store's recurring jobs, by job id
  executions,  \* the store's job executions, by execution id
  sessions,    \* the store's sessions, by session id
  goroutines   \* every execution goroutine started so far, with its locals

schedVars == <<now, nextTick, sched, jobs, executions, sessions, goroutines>>

VARIABLES
  saved,       \* the session handed to SaveSession
  rows,        \* the sessions and messages tables
  loaded,      \* what GetSession returned
  tx           \* the transaction SaveSession is in

storeVars == <<saved, rows, loaded, tx>>

VARIABLES
  file,        \* the content of the file a file tool works on, as characters
  toolCall,    \* the parameters of the file tool call made, and the content
               \* the file had before it
  toolRes      \* the Result the tool returned

fileVars == <<file, toolCall, toolRes>>

VARIABLES
  registry,    \* Manager.tools: name -> tool
  lock,        \* Manager.mu: the writer holding it and the readers holding it
  procs,       \* the goroutines calling the Manager, each with its position
  registered,  \* the tools registered, in the order their Register wrote
  regCalls     \* how many calls of the Manager have been started

regVars == <<registry, lock, procs, registered, regCalls>>

VARIABLES
  events,      \* the events handed to the run's callback, in order
  onEvent,     \* whether the caller of the run supplied a callback
  streaming    \* whether the model client implements llm.StreamingClient

eventVars == <<events, onEvent, streaming>>

VARIABLES
  progress,    \* the task progress store: session id -> progress text
  progCall,    \* the session_task_progress call made, with the store before it
  progRes,     \* the Result and the error the tool returned
  progCalls    \* how many calls of the tool have been made

progVars == <<progress, progCall, progRes, progCalls>>

VARIABLES
  chatStore,   \* the stored sessions the chat handler works on: id -> messages
  chatReqs     \* the chat requests being served, each with its own copy of
               \* the session and its position in handleChat

chatVars == <<chatStore, chatReqs>>

toolsVars == <<fileVars, regVars, eventVars, progVars, chatVars>>

\* Everything the agent loop's own steps leave alone.
notAgentVars == <<cronVars, schedVars, storeVars, toolsVars>>

vars == <<agentVars, dispatchVars, cronVars, schedVars, storeVars, toolsVars>>

MaxSteps == New(cfgMaxSteps)

Snapshot(s) == [written |-> TRUE, status |-> s.status, messages |-> s.messages]

Returned(content, usage, err) == [content |-> content, usage |-> usage, err |-> err]

\* NewScheduler: not running, no ticker yet, the stop channel open.
NewScheduler ==
  [running |-> FALSE, ticker |-> "none", stopChan |-> "open", loop |-> "none",
   ctxDone |-> FALSE, stop |-> "idle"]

\* The parts of the program a specification does not exercise, at rest.
CronIdle ==
  /\ cronIn = [expr |-> "* * * * *", at |-> 0]
  /\ cronOut = <<>>

SchedIdle ==
  /\ now = 0
  /\ nextTick = NilTime
  /\ sched = NewScheduler
  /\ jobs = <<>>
  /\ executions = <<>>
  /\ sessions = <<>>
  /\ goroutines = <<>>

StoreIdle ==
  /\ saved = <<>>
  /\ rows = [sessions |-> <<>>, messages |-> <<>>]
  /\ loaded = <<>>
  /\ tx = [pc |-> "none"]

\* No file tool has been called.
FileIdle ==
  /\ file = <<>>
  /\ toolCall = [tool |-> "none"]
  /\ toolRes = [tool |-> "none"]

\* NewManager's registry before any registration, its lock free.
RegIdle ==
  /\ registry = <<>>
  /\ lock = [writer |-> "none", readers |-> {}]
  /\ procs = <<>>
  /\ registered = <<>>
  /\ regCalls = 0

\* No run with a callback is under way.
EventsIdle ==
  /\ events = <<>>
  /\ onEvent = FALSE
  /\ streaming = FALSE

\* The progress tool has not been called.
ProgIdle ==
  /\ progress = <<>>
  /\ progCall = [action |-> "none"]
  /\ progRes = [action |-> "none"]
  /\ progCalls = 0

\* No chat request has arrived.
ChatIdle ==
  /\ chatStore = <<>>
  /\ chatReqs = <<>>

ToolsIdle == FileIdle /\ RegIdle /\ EventsIdle /\ ProgIdle /\ ChatIdle

InitRest ==
  /\ stored = [written |-> FALSE, status |-> "", messages |-> <<>>]
  /\ pc = "start"
  /\ step = 0
  /\ totalUsage = ZeroUsage
  /\ cancelled = FALSE
  /\ request = <<>>
  /\ calls = <<>>
  /\ results = <<>>
  /\ pending = {}
  /\ ret = Returned("", ZeroUsage, NoErr)
  /\ hist0 = sess.messages
  /\ responses = <<>>
  /\ llmCalls = 0
  /\ finished = <<>>
  /\ toolRuns = {}

Init ==
  /\ \E h \in Histories : sess = [status |-> StatusFor(h), messages |-> h]
  /\ cfgMaxSteps \in {0, 1, 2}
  /\ InitRest
  /\ CronIdle
  /\ SchedIdle
  /\ StoreIdle
  /\ ToolsIdle

\* No run under way: a session that was just created.
AgentIdle ==
  /\ sess = [status |-> StatusCreated, messages |-> <<>>]
  /\ cfgMaxSteps = 0
  /\ InitRest

\* ---------------------------------------------------------------- actions

\* The cancellation token is triggered while the run is under way.
Cancel ==
  /\ pc # "returned"
  /\ ~cancelled
  /\ cancelled' = TRUE
  /\ UNCHANGED <<sess, stored, pc, step, cfgMaxSteps, totalUsage, request,
                 calls, results, pending, ret, hist0, responses, llmCalls,
                 finished>>
  /\ UNCHANGED <<dispatchVars, notAgentVars>>

\* loop, lines 88-92: the repair before the first step.
Start ==
  /\ pc = "start"
  /\ sess' = [sess EXCEPT !.messages = cleanupIncompleteToolCalls(sess.messages)]
  /\ pc' = "top"
  /\ UNCHANGED <<stored, step, cfgMaxSteps, totalUsage, cancelled, request,
                 calls, results, pending, ret, hist0, responses, llmCalls,
                 finished>>
  /\ UNCHANGED <<dispatchVars, notAgentVars>>

\* loop, lines 96-100: the token is triggered at the top of a step.
StepCancelled ==
  /\ pc = "top"
  /\ cancelled
  /\ sess' = [sess EXCEPT !.status = StatusPaused]
  /\ stored' = Snapshot(sess')
  /\ ret' = Returned("", totalUsage, ErrCanceled)
  /\ pc' = "returned"
  /\ UNCHANGED <<step, cfgMaxSteps, totalUsage, cancelled, request, calls,
                 results, pending, hist0, responses, llmCalls, finished>>
  /\ UNCHANGED <<dispatchVars, notAgentVars>>

\* loop, lines 103-107: the step limit is reached.
StepLimit ==
  /\ pc = "top"
  /\ ~cancelled
  /\ AtLimit(step, MaxSteps)
  /\ sess' = [sess EXCEPT !.status = StatusCompleted]
  /\ stored' = Snapshot(sess')
  /\ ret' = Returned(getLastAssistantContent(sess.messages), totalUsage, NoErr)
  /\ pc' = "returned"
  /\ UNCHANGED <<step, cfgMaxSteps, totalUsage, cancelled, request, calls,
                 results, pending, hist0, responses, llmCalls, finished>>
  /\ UNCHANGED <<dispatchVars, notAgentVars>>

\* loop, lines 109-116: the next step builds its request and calls the model.
StepCall ==
  /\ pc = "top"
  /\ ~cancelled
  /\ ~AtLimit(step, MaxSteps)
  /\ step' = step + 1
  /\ llmCalls' = llmCalls + 1
  /\ request' = buildRequest(sess.messages)
  /\ pc' = "llm"
  /\ UNCHANGED <<sess, stored, cfgMaxSteps, totalUsage, cancelled, calls,
                 results, pending, ret, hist0, responses, finished>>
  /\ UNCHANGED <<dispatchVars, notAgentVars>>

\* The errors the model client can return: its own, or the token's.
LLMErrors == {"api error"} \cup (IF cancelled THEN {ErrCanceled} ELSE {})

\* Faulty variant: the error path returns without saving the session.
LLMError_NoSave ==
  /\ pc = "llm"
  /\ \E e \in LLMErrors :
       ret' = Returned("", totalUsage, "LLM error: " \o e)
  /\ sess' = [sess EXCEPT !.status = StatusFailed]
  /\ pc' = "returned"
  /\ UNCHANGED <<stored, step, cfgMaxSteps, totalUsage, cancelled, request,
                 calls, results, pending, hist0, responses, llmCalls, finished>>
  /\ UNCHANGED <<dispatchVars, notAgentVars>>

\* loop, lines 117-121: the model client returns an error.
LLMError ==
  /\ pc = "llm"
  /\ \E e \in LLMErrors :
       ret' = Returned("", totalUsage, "LLM error: " \o e)
  /\ sess' = [sess EXCEPT !.status = StatusFailed]
  /\ stored' = Snapshot(sess')
  /\ pc' = "returned"
  /\ UNCHANGED <<step, cfgMaxSteps, totalUsage, cancelled, request, calls,
                 results, pending, hist0, responses, llmCalls, finished>>
  /\ UNCHANGED <<dispatchVars, notAgentVars>>

\* The responses the model client can give in the current step.
ResponsesNow == IF step <= MaxVariedTurns THEN VariedResponses ELSE LateResponses

\* Faulty variant: the output tokens are not accumulated.
AddUsage_DropOutput(total, u) ==
  Usage(total.InputTokens + u.InputTokens, total.OutputTokens)

\* loop, lines 124-125: the running total after one more response.
AddUsage(total, u) ==
  Usage(total.InputTokens + u.InputTokens, total.OutputTokens + u.OutputTokens)

\* loop, lines 123-137: a response without tool calls ends the run.
LLMFinal ==
  /\ pc = "llm"
  /\ \E r \in ResponsesNow :
       /\ Len(r.calls) = 0
       /\ responses' = Append(responses, r)
       /\ totalUsage' = AddUsage(totalUsage, r.usage)
       /\ sess' = [status |-> StatusCompleted,
                   messages |-> AddAssistantMessage(sess.messages, r.content, <<>>)]
       /\ stored' = Snapshot(sess')
       /\ ret' = Returned(r.content, totalUsage', NoErr)
  /\ request' = <<>>
  /\ pc' = "returned"
  /\ UNCHANGED <<step, cfgMaxSteps, cancelled, calls, results, pending, hist0,
                 llmCalls, finished>>
  /\ UNCHANGED <<dispatchVars, notAgentVars>>

\* loop, lines 123-156 and ExecuteParallel, lines 78-83: a response with tool
\* calls is recorded and one goroutine per call is started.
LLMToolCalls ==
  /\ pc = "llm"
  /\ \E r \in ResponsesNow :
       /\ Len(r.calls) > 0
       /\ responses' = Append(responses, r)
       /\ totalUsage' = AddUsage(totalUsage, r.usage)
       /\ sess' = [sess EXCEPT !.messages =
                     AddAssistantMessage(@, r.content, SessionToolCalls(r.calls))]
       /\ calls' = r.calls
       /\ results' = [i \in 1..Len(r.calls) |-> ZeroResult]
       /\ pending' = 1..Len(r.calls)
  /\ finished' = <<>>
  /\ request' = <<>>
  /\ pc' = "tools"
  /\ UNCHANGED <<stored, step, cfgMaxSteps, cancelled, ret, hist0, llmCalls>>
  /\ UNCHANGED <<dispatchVars, notAgentVars>>

\* What the tools can do in the current step.
OutcomesNow == IF step <= MaxVariedTurns THEN ToolOutcomes ELSE {OkOutcome}

\* ExecuteParallel, lines 83-103: one goroutine finishes, in any order.
ToolReturn ==
  /\ pc = "tools"
  /\ \E idx \in pending : \E o \in OutcomesNow :
       /\ results' = StoreResult(results, idx,
                       ToolResultOf(calls[idx], Execute(calls[idx].name, o)))
       /\ finished' = Append(finished,
                         [idx |-> idx, res |-> Execute(calls[idx].name, o)])
       /\ pending' = pending \ {idx}
  /\ UNCHANGED <<sess, stored, pc, step, cfgMaxSteps, totalUsage, cancelled,
                 request, calls, ret, hist0, responses, llmCalls>>
  /\ UNCHANGED <<dispatchVars, notAgentVars>>

\* The finished goroutines listed by call index: once wg.Wait has returned,
\* the order in which they finished is gone.
ByCall(fin) ==
  [i \in 1..Len(fin) |-> CHOOSE f \in {fin[k] : k \in 1..Len(fin)} : f.idx = i]

\* ExecuteParallel, lines 106-107 and loop, lines 158-175: every goroutine is
\* done, the results are recorded and the step is saved.
ToolsDone ==
  /\ pc = "tools"
  /\ pending = {}
  /\ sess' = [sess EXCEPT !.messages = AddToolResult(@, SessionResults(results))]
  /\ stored' = Snapshot(sess')
  /\ finished' = ByCall(finished)
  /\ pc' = "top"
  /\ UNCHANGED <<step, cfgMaxSteps, totalUsage, cancelled, request, calls,
                 results, pending, ret, hist0, responses, llmCalls>>
  /\ UNCHANGED <<dispatchVars, notAgentVars>>

Next ==
  \/ Cancel
  \/ Start
  \/ StepCancelled
  \/ StepLimit
  \/ StepCall
  \/ LLMError
  \/ LLMFinal
  \/ LLMToolCalls
  \/ ToolReturn
  \/ ToolsDone

Spec == Init /\ [][Next]_vars

\* The loop's own steps: everything but the environment's cancellation.
Progress ==
  \/ Start
  \/ StepCancelled
  \/ StepLimit
  \/ StepCall
  \/ LLMError
  \/ LLMFinal
  \/ LLMToolCalls
  \/ ToolReturn
  \/ ToolsDone

\* The run under a scheduler that keeps running the loop and its goroutines,
\* with a model client and tools that return from every call.
FairSpec == Spec /\ WF_vars(Progress)

\* ----------------------------------------------------- the repair alone

\* Any history at all, paired or not, as the repair may be handed.
InitRepair ==
  /\ \E h \in SeqsUpTo(HistMsgs, MaxRepairLen) :
       sess = [status |-> StatusPaused, messages |-> h]
  /\ cfgMaxSteps = 0
  /\ InitRest
  /\ CronIdle
  /\ SchedIdle
  /\ StoreIdle
  /\ ToolsIdle

NextRepair == Start

SpecRepair == InitRepair /\ [][NextRepair]_vars

\* --------------------------------------------------- the dispatch alone

\* Longest batch handed to ExecuteParallel when it is checked on its own.
MaxBatch == 2

\* WriteTool.Execute and EditTool.Execute: neither looks at its context, and
\* a successful call has written the file.
WritesFile == {"write", "edit"}

\* ReadTool, GlobTool and GrepTool look at the context once per line or file
\* they go through.
ScansInput == {"read", "glob", "grep"}

\* A tool's Execute under its context.  o is what the call returns when the
\* context stays live; a scanning tool that has output to give has a line or
\* a file to go through, and finds the context done there.
RunTool(name, o, ctxDone) ==
  IF ~ctxDone THEN o
  ELSE IF name = "bash"
    THEN Outcome(NoErr, FALSE, "", "command failed: " \o ErrCanceled)
  ELSE IF name \in ScansInput /\ o.err = NoErr /\ o.success
    THEN Outcome(ErrCanceled, FALSE, "", "")
  ELSE o

\* One tool execution of the batch, as the checks below need it.
ToolRun(idx, ctxDone, wrote, panicked) ==
  [idx |-> idx, ctxDone |-> ctxDone, wrote |-> wrote, panicked |-> panicked]

\* The batches a model response can ask for: built-in tools, ids in order.
BatchIds == <<"call_1", "call_2", "call_3">>

Batches ==
  UNION { { [i \in 1..n |-> Call(BatchIds[i], names[i])] :
              names \in [1..n -> Registered] } : n \in 1..MaxBatch }

\* A run in its first step, right after the model asked for a batch: the
\* assistant message is recorded and one goroutine per call is started.  The
\* token may have been triggered while the model was answering.
InitDispatch ==
  /\ \E b \in Batches :
       /\ calls = b
       /\ sess = [status |-> StatusCreated,
                  messages |-> AddAssistantMessage(<<UserMsg>>, "",
                                                   SessionToolCalls(b))]
       /\ responses = <<Response("", b, Usage(5, 2))>>
  /\ cancelled \in BOOLEAN
  /\ stored = [written |-> FALSE, status |-> "", messages |-> <<>>]
  /\ pc = "tools"
  /\ step = 1
  /\ cfgMaxSteps = 1
  /\ totalUsage = Usage(5, 2)
  /\ request = <<>>
  /\ results = [i \in 1..Len(calls) |-> ZeroResult]
  /\ pending = 1..Len(calls)
  /\ ret = Returned("", ZeroUsage, NoErr)
  /\ hist0 = <<UserMsg>>
  /\ llmCalls = 1
  /\ finished = <<>>
  /\ toolRuns = {}
  /\ CronIdle
  /\ SchedIdle
  /\ StoreIdle
  /\ ToolsIdle

\* ExecuteParallel, lines 83-103, with the tool's own Execute: one goroutine
\* runs its tool under the context and stores the result.
ToolExecute ==
  /\ pc = "tools"
  /\ \E idx \in pending : \E o \in ToolOutcomes :
       LET name == calls[idx].name
           res == Execute(name, RunTool(name, o, cancelled))
       IN /\ results' = StoreResult(results, idx, ToolResultOf(calls[idx], res))
          /\ finished' = Append(finished, [idx |-> idx, res |-> res])
          /\ toolRuns' = toolRuns \cup
               {ToolRun(idx, cancelled,
                        name \in WritesFile /\ res.err = NoErr /\ res.success,
                        FALSE)}
          /\ pending' = pending \ {idx}
  /\ UNCHANGED <<sess, stored, pc, step, cfgMaxSteps, totalUsage, cancelled,
                 request, calls, ret, hist0, responses, llmCalls>>
  /\ UNCHANGED notAgentVars

\* ExecuteParallel, lines 83-103: a tool panics in its goroutine.  Nothing
\* between the tool and the top of the goroutine recovers, so the Go runtime
\* ends the process: no result is stored and wg.Wait never returns.
ToolPanic ==
  /\ pc = "tools"
  /\ \E idx \in pending :
       toolRuns' = toolRuns \cup {ToolRun(idx, cancelled, FALSE, TRUE)}
  /\ pc' = "crashed"
  /\ UNCHANGED <<sess, stored, step, cfgMaxSteps, totalUsage, cancelled,
                 request, calls, results, pending, ret, hist0, responses,
                 llmCalls, finished>>
  /\ UNCHANGED notAgentVars

NextDispatch ==
  \/ Cancel
  \/ ToolExecute
  \/ ToolPanic
  \/ ToolsDone
  \/ StepCancelled
  \/ StepLimit

SpecDispatch == InitDispatch /\ [][NextDispatch]_vars

\* ------------------------------------------------- calculateNextRun alone

\* Days of 2025, counted from January 1, on which calculateNextRun is tried.
MaxCronDay == 6

CronExprs ==
  {"* * * * *", "*/2 * * * *", "*/15 * * * *", "0 19 * * *", "0 9 * * 1",
   "30 8 1 * 1-5", "0 0 31 12 *", "0 0 30 2 *"}

\* The first days of the year, the last day of January, of February and of
\* the year; on each the start of the day, firing times of the expressions
\* and times around them.
CronTimes ==
  { d * 86400 + s :
      d \in (0..MaxCronDay) \cup {30, 58, 364},
      s \in {0, 1, 59, 60, 30600, 32400, 32430, 36450, 36900, 68400, 86399} }

InitCron ==
  /\ cronIn \in [expr : CronExprs, at : CronTimes]
  /\ cronOut = <<>>
  /\ AgentIdle
  /\ SchedIdle
  /\ StoreIdle
  /\ ToolsIdle

\* calculateNextRun for the expression and the time.
CronCall ==
  /\ cronOut = <<>>
  /\ cronOut' = <<calculateNextRun(cronIn.expr, cronIn.at)>>
  /\ UNCHANGED <<cronIn, agentVars, dispatchVars, schedVars, storeVars, toolsVars>>

\* calculateNextRun again, for the time the first call returned.
CronCallAgain ==
  /\ Len(cronOut) = 1
  /\ cronOut[1] # ZeroTime
  /\ cronOut' = Append(cronOut, calculateNextRun(cronIn.expr, cronOut[1]))
  /\ UNCHANGED <<cronIn, agentVars, dispatchVars, schedVars, storeVars, toolsVars>>

NextCron == CronCall \/ CronCallAgain

SpecCron == InitCron /\ [][NextCron]_vars

\* ---------------------------------------------------------- the scheduler

\* How many times the clock moves on, a tick interval at a time.
MaxAdvances == 2
\* How many execution goroutines are started in all.
MaxGoroutines == 3
\* How many run-now requests are made.
MaxRunNow == 1

\* context.WithTimeout(ctx, 30*time.Minute), in seconds.
JobTimeout == 1800

\* time.NewTicker(1 * time.Minute), in seconds.
TickInterval == 60

JobIds == <<"job-1", "job-2">>

\* The schedules jobs are given: every minute, every second minute.
SchedCrons == {"* * * * *", "*/2 * * * *"}

\* storage.RecurringJob.
RecurringJob(id, cron, createdAt, lastRunAt, nextRunAt) ==
  [id |-> id, cron |-> cron, enabled |-> TRUE, createdAt |-> createdAt,
   lastRunAt |-> lastRunAt, nextRunAt |-> nextRunAt]

\* storage.JobExecution.  Session id 0 is the empty string.
JobExecution(jobId, sessionId, status, err, startedAt, finishedAt) ==
  [jobId |-> jobId, sessionId |-> sessionId, status |-> status, error |-> err,
   startedAt |-> startedAt, finishedAt |-> finishedAt]

\* An upsert into one of the store's tables.
Upsert(table, id, row) ==
  [k \in DOMAIN table \cup {id} |-> IF k = id THEN row ELSE table[k]]

\* store.GetDueJobs(now): the enabled jobs whose next run is at or before now.
GetDueJobs(js, t) ==
  {id \in DOMAIN js :
     js[id].enabled /\ js[id].nextRunAt # NilTime /\ js[id].nextRunAt <= t}

\* An execution goroutine's locals: who started it (a wake or run-now), its
\* copy of the job, where it is, and what it has so far.
Goroutine(kind, job) ==
  [kind |-> kind, job |-> job, pc |-> "begin", execId |-> 0, startedAt |-> NilTime,
   sessionId |-> 0, err |-> NoErr, ctxDone |-> FALSE]

\* The job ids of a set, in the order of JobIds.
RECURSIVE InOrder(_, _)
InOrder(ids, i) ==
  IF i > Len(JobIds) THEN <<>>
  ELSE (IF JobIds[i] \in ids THEN <<JobIds[i]>> ELSE <<>>) \o InOrder(ids, i + 1)

\* Faulty variant: jobs are started only while no execution is under way.
checkAndRunDueJobs_WhenIdle(gs, js, t) ==
  IF \E i \in 1..Len(gs) : gs[i].pc # "done" THEN gs
  ELSE LET due == InOrder(GetDueJobs(js, t), 1)
       IN gs \o [i \in 1..Len(due) |-> Goroutine("wake", js[due[i]])]

\* checkAndRunDueJobs: one goroutine per due job, each with the job as read.
checkAndRunDueJobs(gs, js, t) ==
  LET due == InOrder(GetDueJobs(js, t), 1)
  IN gs \o [i \in 1..Len(due) |-> Goroutine("wake", js[due[i]])]

\* The ticker's next tick after a wake at time t.
TickAfter(tick, t) == tick + TickInterval * (((t - tick) \div TickInterval) + 1)

\* The server is up with an empty store; the scheduler is not started yet.
InitSched ==
  /\ SchedIdle
  /\ AgentIdle
  /\ CronIdle
  /\ StoreIdle
  /\ ToolsIdle

notSchedVars == <<agentVars, dispatchVars, cronVars, storeVars, toolsVars>>

\* Time passes: a minute, or, over an agent run, as long as an execution may
\* take at most.
Advance ==
  /\ now < MaxAdvances * TickInterval
  /\ \E d \in {TickInterval} \cup
              (IF \E i \in 1..Len(goroutines) : goroutines[i].pc = "run"
                 THEN {JobTimeout} ELSE {}) :
       now' = now + d
  /\ UNCHANGED <<nextTick, sched, jobs, executions, sessions, goroutines>>
  /\ UNCHANGED notSchedVars

\* Server.handleCreateJob with a schedule the parser accepts.
CreateJob ==
  /\ Cardinality(DOMAIN jobs) < Len(JobIds)
  /\ \E cron \in SchedCrons :
       LET id == JobIds[Cardinality(DOMAIN jobs) + 1]
       IN jobs' = Upsert(jobs, id,
                    RecurringJob(id, cron, now, NilTime, calculateNextRun(cron, now)))
  /\ UNCHANGED <<now, nextTick, sched, executions, sessions, goroutines>>
  /\ UNCHANGED notSchedVars

\* Server.handleUpdateJob with a changed schedule.
UpdateJob ==
  /\ \E id \in DOMAIN jobs : \E cron \in SchedCrons \ {jobs[id].cron} :
       jobs' = [jobs EXCEPT ![id].cron = cron,
                            ![id].nextRunAt = calculateNextRun(cron, now)]
  /\ UNCHANGED <<now, nextTick, sched, executions, sessions, goroutines>>
  /\ UNCHANGED notSchedVars

\* Scheduler.Start: the ticker is created, the due jobs are started at once
\* and the loop goroutine begins.
SchedulerStart ==
  /\ ~sched.running
  /\ sched.loop = "none"
  /\ Len(checkAndRunDueJobs(goroutines, jobs, now)) <= MaxGoroutines
  /\ sched' = [sched EXCEPT !.running = TRUE, !.ticker = "on", !.loop = "running"]
  /\ nextTick' = now + TickInterval
  /\ goroutines' = checkAndRunDueJobs(goroutines, jobs, now)
  /\ UNCHANGED <<now, jobs, executions, sessions>>
  /\ UNCHANGED notSchedVars

\* The loop goroutine's select takes a tick: checkAndRunDueJobs.  A tick that
\* is waiting is taken even if the context is done or the stop channel closed
\* by then: select picks among the ready cases at random.
Wake ==
  /\ sched.loop = "running"
  /\ nextTick # NilTime
  /\ nextTick <= now
  /\ Len(checkAndRunDueJobs(goroutines, jobs, now)) <= MaxGoroutines
  /\ goroutines' = checkAndRunDueJobs(goroutines, jobs, now)
  /\ nextTick' = IF sched.ticker = "on" THEN TickAfter(nextTick, now) ELSE NilTime
  /\ UNCHANGED <<now, sched, jobs, executions, sessions>>
  /\ UNCHANGED notSchedVars

\* The context Start was given is cancelled.
CancelCtx ==
  /\ sched.loop # "none"
  /\ ~sched.ctxDone
  /\ sched' = [sched EXCEPT !.ctxDone = TRUE]
  /\ UNCHANGED <<now, nextTick, jobs, executions, sessions, goroutines>>
  /\ UNCHANGED notSchedVars

\* The loop goroutine's select takes ctx.Done() or stopChan and returns.
LoopExit ==
  /\ sched.loop = "running"
  /\ sched.ctxDone \/ sched.stopChan = "closed"
  /\ sched' = [sched EXCEPT !.loop = "exited"]
  /\ UNCHANGED <<now, nextTick, jobs, executions, sessions, goroutines>>
  /\ UNCHANGED notSchedVars

\* Scheduler.Stop, up to wg.Wait: the ticker is stopped, the stop channel
\* closed.  A tick that has not fired yet never will.
StopBegin ==
  /\ sched.running
  /\ sched.stop = "idle"
  /\ sched' = [sched EXCEPT !.running = FALSE, !.ticker = "stopped",
                            !.stopChan = "closed", !.stop = "waiting"]
  /\ nextTick' = IF nextTick <= now THEN nextTick ELSE NilTime
  /\ UNCHANGED <<now, jobs, executions, sessions, goroutines>>
  /\ UNCHANGED notSchedVars

\* Scheduler.Stop: wg.Wait returns once the loop goroutine and every
\* execution goroutine the scheduler started are done.
StopReturn ==
  /\ sched.stop = "waiting"
  /\ sched.loop = "exited"
  /\ \A i \in 1..Len(goroutines) :
       goroutines[i].kind = "wake" => goroutines[i].pc = "done"
  /\ sched' = [sched EXCEPT !.stop = "returned"]
  /\ UNCHANGED <<now, nextTick, jobs, executions, sessions, goroutines>>
  /\ UNCHANGED notSchedVars

\* Server.handleRunJobNow: the job is read and executed for this request.
RunJobNow ==
  /\ Len(goroutines) < MaxGoroutines
  /\ Cardinality({i \in 1..Len(goroutines) : goroutines[i].kind = "runnow"}) < MaxRunNow
  /\ \E id \in DOMAIN jobs :
       goroutines' = Append(goroutines, Goroutine("runnow", jobs[id]))
  /\ UNCHANGED <<now, nextTick, sched, jobs, executions, sessions>>
  /\ UNCHANGED notSchedVars

\* Scheduler.executeJob, lines 129-157 (Server.executeJob, part_005 lines
\* 1213-1238): the execution record is inserted as running and the session is
\* created, with the job's id by the scheduler and without it by run-now; if
\* the session cannot be created the record is finished as failed and the
\* job is left as it is.
ExecBegin ==
  \E i \in 1..Len(goroutines) :
    LET g == goroutines[i]
        execId == Cardinality(DOMAIN executions) + 1
        sessId == Cardinality(DOMAIN sessions) + 1
    IN /\ g.pc = "begin"
       /\ \/ /\ sessions' = Upsert(sessions, sessId,
                              [agentId |-> "job-runner",
                               jobId |-> IF g.kind = "wake" THEN g.job.id ELSE ""])
             /\ executions' = Upsert(executions, execId,
                                JobExecution(g.job.id, 0, "running", "", now, NilTime))
             /\ goroutines' = [goroutines EXCEPT ![i].pc = "run",
                                 ![i].execId = execId, ![i].startedAt = now,
                                 ![i].sessionId = sessId]
          \/ /\ executions' = Upsert(executions, execId,
                                JobExecution(g.job.id, 0, "failed",
                                  "Failed to create session: store error", now, now))
             /\ goroutines' = [goroutines EXCEPT ![i].pc = "done",
                                 ![i].execId = execId, ![i].startedAt = now,
                                 ![i].err = "Failed to create session: store error"]
             /\ UNCHANGED sessions
       /\ UNCHANGED <<now, nextTick, sched, jobs>>
       /\ UNCHANGED notSchedVars

\* The context an execution's agent runs under: the scheduler's with the
\* timeout on it; run-now runs under the request's, which stays live here.
JobCtxErrors(g) ==
  IF g.kind # "wake" THEN {}
  ELSE (IF sched.ctxDone THEN {ErrCanceled} ELSE {})
       \cup (IF now >= g.startedAt + JobTimeout
               THEN {"context deadline exceeded"} ELSE {})

\* What ag.Run returns to an execution.
RunErrors(g) == {NoErr, "LLM error: api error"} \cup JobCtxErrors(g)

\* Faulty variant: every finished execution is recorded as a success.
ExecStatus_AlwaysSuccess(err) == "success"

\* The status an execution is finished with, from what the agent run returned.
ExecStatus(err) == IF err = NoErr THEN "success" ELSE "failed"

\* Scheduler.executeJob, lines 173-209 (Server.executeJob, part_005 lines
\* 1248-1280): the agent run has returned; the record is finished and
\* upserted with the session id, and the goroutine's copy of the job is saved
\* with the run's start as last run and the next run computed from it.
ExecFinish ==
  \E i \in 1..Len(goroutines) : \E err \in RunErrors(goroutines[i]) :
    LET g == goroutines[i]
    IN /\ g.pc = "run"
       /\ executions' = Upsert(executions, g.execId,
                          JobExecution(g.job.id, g.sessionId, ExecStatus(err),
                            IF err = NoErr THEN "" ELSE err,
                            g.startedAt, now))
       /\ jobs' = Upsert(jobs, g.job.id,
                    [g.job EXCEPT !.lastRunAt = g.startedAt,
                                  !.nextRunAt = calculateNextRun(g.job.cron, g.startedAt)])
       /\ goroutines' = [goroutines EXCEPT ![i].pc = "done", ![i].err = err,
                                           ![i].ctxDone = JobCtxErrors(g) # {}]
       /\ UNCHANGED <<now, nextTick, sched, sessions>>
       /\ UNCHANGED notSchedVars

\* Jobs are created and rescheduled while the scheduler wakes and runs them.
NextSched ==
  \/ Advance
  \/ CreateJob
  \/ UpdateJob
  \/ SchedulerStart
  \/ Wake
  \/ ExecBegin
  \/ ExecFinish

SpecSched == InitSched /\ [][NextSched]_vars

\* The server comes up on a store that holds two jobs from before, one for
\* every minute and one for every second minute.
InitStored ==
  /\ now = 0
  /\ nextTick = NilTime
  /\ sched = NewScheduler
  /\ jobs = [id \in {JobIds[1], JobIds[2]} |->
               LET cron == IF id = JobIds[1] THEN "* * * * *" ELSE "*/2 * * * *"
               IN RecurringJob(id, cron, 0, NilTime, calculateNextRun(cron, 0))]
  /\ executions = <<>>
  /\ sessions = <<>>
  /\ goroutines = <<>>
  /\ AgentIdle
  /\ CronIdle
  /\ StoreIdle
  /\ ToolsIdle

\* The scheduler wakes and runs the stored jobs, and its context may be
\* cancelled.
NextExec ==
  \/ Advance
  \/ SchedulerStart
  \/ Wake
  \/ CancelCtx
  \/ ExecBegin
  \/ ExecFinish

SpecExec == InitStored /\ [][NextExec]_vars

\* The loop goroutine gets to run and every execution goroutine goes on: the
\* Go scheduler starves no goroutine, and an agent run returns (under its
\* timeout at the latest).
FairExec ==
  /\ SpecExec
  /\ WF_vars(Wake)
  /\ WF_vars(ExecBegin)
  /\ WF_vars(ExecFinish)

\* The scheduler is started, runs jobs and is shut down, by its context or
\* by Stop.
NextShutdown ==
  \/ Advance
  \/ SchedulerStart
  \/ Wake
  \/ CancelCtx
  \/ LoopExit
  \/ StopBegin
  \/ StopReturn
  \/ ExecBegin
  \/ ExecFinish

SpecShutdown == InitStored /\ [][NextShutdown]_vars

\* Jobs are run by the scheduler and on request.
NextRunNow ==
  \/ Advance
  \/ SchedulerStart
  \/ Wake
  \/ RunJobNow
  \/ ExecBegin
  \/ ExecFinish

SpecRunNow == InitStored /\ [][NextRunNow]_vars

\* An execution of the job is in its agent run.
InFlight(id) ==
  \E i \in 1..Len(goroutines) : goroutines[i].pc = "run" /\ goroutines[i].job.id = id

\* Server.handleUpdateJob with the enabled flag in the request, for a job
\* that is being executed.
SetJobEnabled ==
  /\ \E id \in DOMAIN jobs :
       /\ InFlight(id)
       /\ jobs' = [jobs EXCEPT ![id].enabled = ~jobs[id].enabled]
  /\ UNCHANGED <<now, nextTick, sched, executions, sessions, goroutines>>
  /\ UNCHANGED notSchedVars

\* Server.handleDeleteJob for a job that is being executed: store.DeleteJob
\* removes the job's row.
DeleteJob ==
  /\ \E id \in DOMAIN jobs :
       /\ InFlight(id)
       /\ jobs' = [k \in DOMAIN jobs \ {id} |-> jobs[k]]
  /\ UNCHANGED <<now, nextTick, sched, executions, sessions, goroutines>>
  /\ UNCHANGED notSchedVars

\* Jobs are changed and deleted over the API while the scheduler runs them.
NextJobEdit ==
  \/ Advance
  \/ SchedulerStart
  \/ Wake
  \/ ExecBegin
  \/ ExecFinish
  \/ (\E id \in DOMAIN jobs : InFlight(id)) /\ UpdateJob
  \/ SetJobEnabled
  \/ DeleteJob

\* Every goroutine goes on, as in FairExec; the requests of the API come or
\* do not.
SpecJobEdit ==
  /\ InitStored
  /\ [][NextJobEdit]_vars
  /\ WF_vars(Wake)
  /\ WF_vars(ExecBegin)
  /\ WF_vars(ExecFinish)

\* How many calls of Start and Stop are made on one scheduler.
MaxCalls == 4

\* The scheduler with the calls made on it so far: "start" and "stop" for
\* the calls that did something, "start-noop" and "stop-noop" for those that
\* returned at once.
CalledScheduler ==
  [running |-> FALSE, ticker |-> "none", stopChan |-> "open", loop |-> "none",
   ctxDone |-> FALSE, stop |-> "idle", calls |-> <<>>]

\* Scheduler.Start, called with a live context.  The call waits for the
\* mutex while a Stop is in wg.Wait.  When the scheduler is not running a new
\* ticker is made, the due jobs are started and a new loop goroutine begins;
\* the stop channel is the one NewScheduler made.
StartCall ==
  /\ Len(sched.calls) < MaxCalls
  /\ sched.stop # "waiting"
  /\ IF sched.running
       THEN /\ sched' = [sched EXCEPT !.calls = Append(@, "start-noop")]
            /\ UNCHANGED <<nextTick, goroutines>>
       ELSE /\ Len(checkAndRunDueJobs(goroutines, jobs, now)) <= MaxGoroutines
            /\ sched' = [sched EXCEPT !.running = TRUE, !.ticker = "on",
                                      !.loop = "running", !.ctxDone = FALSE,
                                      !.stop = "idle",
                                      !.calls = Append(@, "start")]
            /\ nextTick' = now + TickInterval
            /\ goroutines' = checkAndRunDueJobs(goroutines, jobs, now)
  /\ UNCHANGED <<now, jobs, executions, sessions>>
  /\ UNCHANGED notSchedVars

\* Scheduler.Stop up to wg.Wait.  close of a closed channel panics, and
\* nothing recovers: the process ends.
StopCall ==
  /\ Len(sched.calls) < MaxCalls
  /\ sched.stop # "waiting"
  /\ IF ~sched.running
       THEN /\ sched' = [sched EXCEPT !.calls = Append(@, "stop-noop")]
            /\ UNCHANGED nextTick
       ELSE /\ sched' = [sched EXCEPT
                           !.running = FALSE, !.ticker = "stopped",
                           !.stopChan = "closed",
                           !.stop = IF sched.stopChan = "closed" THEN "panicked"
                                    ELSE "waiting",
                           !.calls = Append(@, "stop")]
            /\ nextTick' = IF nextTick <= now THEN nextTick ELSE NilTime
  /\ UNCHANGED <<now, jobs, executions, sessions, goroutines>>
  /\ UNCHANGED notSchedVars

\* The process is up: no panic has ended it.
Up == sched.stop # "panicked"

\* One scheduler is started and stopped again and again while time passes,
\* its context may be cancelled and its jobs run.
NextStartStop ==
  \/ Up /\ Advance
  \/ Up /\ StartCall
  \/ Up /\ StopCall
  \/ Up /\ StopReturn
  \/ Up /\ Wake
  \/ Up /\ CancelCtx
  \/ Up /\ LoopExit
  \/ Up /\ ExecBegin
  \/ Up /\ ExecFinish

InitStartStop ==
  /\ now = 0
  /\ nextTick = NilTime
  /\ sched = CalledScheduler
  /\ jobs = [id \in {JobIds[1]} |->
               RecurringJob(id, "* * * * *", 0, NilTime, calculateNextRun("* * * * *", 0))]
  /\ executions = <<>>
  /\ sessions = <<>>
  /\ goroutines = <<>>
  /\ AgentIdle
  /\ CronIdle
  /\ StoreIdle
  /\ ToolsIdle

\* Every goroutine goes on, as in FairExec.
SpecStartStop ==
  /\ InitStartStop
  /\ [][NextStartStop]_vars
  /\ WF_vars(Up /\ Wake)
  /\ WF_vars(Up /\ LoopExit)
  /\ WF_vars(Up /\ ExecBegin)
  /\ WF_vars(Up /\ ExecFinish)
  /\ WF_vars(Up /\ StopReturn)

\* ------------------------------------------------------ the session store

\* How many messages a saved session has at most.
MaxMsgs == 2

MsgIds == <<"msg-1", "msg-2", "msg-3">>

\* The times messages are appended at; two messages may share one.
MsgTimes == {1, 2}

\* The message lists a session can hold: appended in time order.
MessageLists ==
  {[i \in DOMAIN ts |-> [id |-> MsgIds[i], timestamp |-> ts[i]]] :
     ts \in {f \in UNION {[1..m -> MsgTimes] : m \in 0..MaxMsgs} :
               \A i \in DOMAIN f : \A j \in DOMAIN f : i < j => f[i] <= f[j]}}

\* The sessions handed to SaveSession.
StoredSessions ==
  [id : {"sess-1"}, agentId : {"build", "job-runner"}, parentId : {"", "sess-0"},
   jobId : {"", "job-1"}, title : {"", "nightly"},
   status : {StatusCreated, StatusCompleted}, metadata : {"null", "{\"k\":\"v\"}"},
   messages : MessageLists]

\* The row INSERT ... ON CONFLICT(id) DO UPDATE leaves in the sessions
\* table: a row that exists keeps its agent_id and parent_id.  There is no
\* job_id among the columns written.
SessionRow(old, s) ==
  [agentId |-> IF old = <<>> THEN s.agentId ELSE old.agentId,
   parentId |-> IF old = <<>> THEN s.parentId ELSE old.parentId,
   title |-> s.title, status |-> s.status, metadata |-> s.metadata]

\* The session's row in the sessions table of db, <<>> if there is none.
RowOf(db, id) == IF id \in DOMAIN db.sessions THEN db.sessions[id] ELSE <<>>

\* The session's rows in the messages table of db, in the order of insertion.
MessagesOf(db, id) == IF id \in DOMAIN db.messages THEN db.messages[id] ELSE <<>>

\* SaveSession's statements, each on the tables it is given.
UpsertSession(db, s) ==
  [db EXCEPT !.sessions = Upsert(db.sessions, s.id, SessionRow(RowOf(db, s.id), s))]

\* Faulty variant: the session's old message rows are left in the table.
DeleteMessages_None(db, id) == db

\* DELETE FROM messages WHERE session_id = ?.
DeleteMessages(db, id) ==
  [db EXCEPT !.messages = Upsert(db.messages, id, <<>>)]

InsertMessage(db, id, msg) ==
  [db EXCEPT !.messages = Upsert(db.messages, id, Append(MessagesOf(db, id), msg))]

\* SELECT ... ORDER BY timestamp: the rows in an order of non-decreasing
\* timestamp; among rows of equal timestamp SQL promises no order.
ByTimestamp(msgs) ==
  {[i \in 1..Len(msgs) |-> msgs[p[i]]] :
     p \in {q \in [1..Len(msgs) -> 1..Len(msgs)] :
              /\ \A i, j \in 1..Len(msgs) : i # j => q[i] # q[j]
              /\ \A i, j \in 1..Len(msgs) :
                   i < j => msgs[q[i]].timestamp <= msgs[q[j]].timestamp}}

InitStore ==
  /\ StoreIdle
  /\ ToolsIdle
  /\ AgentIdle
  /\ CronIdle
  /\ SchedIdle

notStoreVars == <<agentVars, dispatchVars, cronVars, schedVars, toolsVars>>

\* A session keeps the agent, parent and job it was created with.
SameSession(s) ==
  s.id \in DOMAIN rows.sessions
    => /\ s.agentId = rows.sessions[s.id].agentId
       /\ s.parentId = rows.sessions[s.id].parentId
       /\ saved # <<>> => s.jobId = saved.jobId

\* All the session's messages inserted, from the first on.
RECURSIVE InsertMessages(_, _, _, _)
InsertMessages(db, id, msgs, i) ==
  IF i > Len(msgs) THEN db
  ELSE InsertMessages(InsertMessage(db, id, msgs[i]), id, msgs, i + 1)

\* SQLiteStore.SaveSession that returns nil: the upsert, the delete and the
\* inserts, committed.
SaveSession ==
  /\ \E s \in StoredSessions :
       /\ SameSession(s)
       /\ saved' = s
       /\ rows' = InsertMessages(DeleteMessages(UpsertSession(rows, s), s.id),
                                 s.id, s.messages, 1)
  /\ loaded' = <<>>
  /\ UNCHANGED tx
  /\ UNCHANGED notStoreVars

\* SQLiteStore.GetSession of a session that is there: storage.Session has no
\* job id to fill in.
GetSession ==
  /\ \E id \in DOMAIN rows.sessions :
       \E msgs \in ByTimestamp(MessagesOf(rows, id)) :
         loaded' = [id |-> id, agentId |-> rows.sessions[id].agentId,
                    parentId |-> rows.sessions[id].parentId, jobId |-> "",
                    title |-> rows.sessions[id].title,
                    status |-> rows.sessions[id].status,
                    metadata |-> rows.sessions[id].metadata, messages |-> msgs]
  /\ UNCHANGED <<saved, rows, tx>>
  /\ UNCHANGED notStoreVars

NextStore ==
  \/ SaveSession
  \/ GetSession

SpecStore == InitStore /\ [][NextStore]_vars

\* sql.Open("sqlite", dbPath): the connection is opened without the
\* foreign_keys pragma, and SQLite enforces foreign keys only under it.
ForeignKeys == FALSE

\* ON DELETE CASCADE on messages.session_id, for a deleted session row.
Cascade(db, id) ==
  IF ForeignKeys
    THEN [db EXCEPT !.messages = [k \in DOMAIN db.messages \ {id} |-> db.messages[k]]]
    ELSE db

\* SQLiteStore.DeleteSession: DELETE FROM sessions WHERE id = ?.
DeleteSession ==
  /\ \E id \in DOMAIN rows.sessions :
       rows' = Cascade([rows EXCEPT !.sessions =
                          [k \in DOMAIN rows.sessions \ {id} |-> rows.sessions[k]]], id)
  /\ loaded' = <<>>
  /\ UNCHANGED <<saved, tx>>
  /\ UNCHANGED notStoreVars

\* SQLiteStore.GetSession of a session that is not there: sql.ErrNoRows.
GetSessionNotFound ==
  /\ \E s \in StoredSessions :
       /\ s.id \notin DOMAIN rows.sessions
       /\ loaded' = [id |-> s.id, err |-> "session not found: " \o s.id]
  /\ UNCHANGED <<saved, rows, tx>>
  /\ UNCHANGED notStoreVars

NextDelete ==
  \/ SaveSession
  \/ DeleteSession
  \/ GetSession
  \/ GetSessionNotFound

SpecDelete == InitStore /\ [][NextDelete]_vars

\* ------------------------------------------ SaveSession, statement by statement

\* Faulty variant: what the statements wrote so far stays in the tables.
Rollback_KeepsWork(committed, work) == work

\* tx.Rollback, deferred: the tables are as they were committed.  A crash
\* before the commit leaves the same, by the rollback journal.
Rollback(committed, work) == committed

\* The sessions saved statement by statement: they differ in what the
\* statements write, agent, title, status and messages.
TxSessions ==
  {s \in StoredSessions : s.parentId = "" /\ s.jobId = "" /\ s.metadata = "null"}

\* db.Begin: the transaction works on its own view of the tables.
TxBegin ==
  /\ tx.pc \in {"none", "committed", "rolledback"}
  /\ \E s \in TxSessions :
       /\ SameSession(s)
       /\ tx' = [s |-> s, pc |-> "upsert", n |-> 0, pre |-> rows, work |-> rows]
  /\ UNCHANGED <<saved, rows, loaded>>
  /\ UNCHANGED notStoreVars

\* The upsert of the session row.
TxUpsert ==
  /\ tx.pc = "upsert"
  /\ tx' = [tx EXCEPT !.pc = "delete", !.work = UpsertSession(tx.work, tx.s)]
  /\ UNCHANGED <<saved, rows, loaded>>
  /\ UNCHANGED notStoreVars

\* DELETE FROM messages WHERE session_id = ?.
TxDelete ==
  /\ tx.pc = "delete"
  /\ tx' = [tx EXCEPT !.pc = "insert", !.work = DeleteMessages(tx.work, tx.s.id)]
  /\ UNCHANGED <<saved, rows, loaded>>
  /\ UNCHANGED notStoreVars

\* One turn of the loop over sess.Messages.
TxInsert ==
  /\ tx.pc = "insert"
  /\ tx.n < Len(tx.s.messages)
  /\ tx' = [tx EXCEPT !.n = tx.n + 1,
                      !.work = InsertMessage(tx.work, tx.s.id, tx.s.messages[tx.n + 1])]
  /\ UNCHANGED <<saved, rows, loaded>>
  /\ UNCHANGED notStoreVars

\* tx.Commit.
TxCommit ==
  /\ tx.pc = "insert"
  /\ tx.n = Len(tx.s.messages)
  /\ rows' = tx.work
  /\ saved' = tx.s
  /\ loaded' = <<>>
  /\ tx' = [tx EXCEPT !.pc = "committed"]
  /\ UNCHANGED notStoreVars

\* A statement or the commit fails and SaveSession returns the error, or the
\* process dies: at any point from Begin to Commit.
TxFail ==
  /\ tx.pc \in {"upsert", "delete", "insert"}
  /\ rows' = Rollback(rows, tx.work)
  /\ tx' = [tx EXCEPT !.pc = "rolledback"]
  /\ UNCHANGED <<saved, loaded>>
  /\ UNCHANGED notStoreVars

NextTx ==
  \/ TxBegin
  \/ TxUpsert
  \/ TxDelete
  \/ TxInsert
  \/ TxCommit
  \/ TxFail

SpecTx == InitStore /\ [][NextTx]_vars

\* ------------------------------------------- job creation over the API

\* What the model may answer to parseScheduleToCron's prompt, trimmed and
\* split at white space (strings.Fields): expressions the cron parser
\* accepts, five fields it refuses (a minute of 61, words), four fields, and
\* nothing.
LLMAnswers ==
  {<<"*", "*", "*", "*", "*">>, <<"*/2", "*", "*", "*", "*">>,
   <<"61", "25", "*", "*", "*">>, <<"every", "day", "at", "7", "pm">>,
   <<"0", "19", "*", "*">>, <<>>}

\* The answer as the string parseScheduleToCron returns.
RECURSIVE JoinFields(_)
JoinFields(fields) ==
  IF fields = <<>> THEN ""
  ELSE IF Len(fields) = 1 THEN fields[1]
  ELSE fields[1] \o " " \o JoinFields(Tail(fields))

\* parseScheduleToCron's validation: the answer has five fields.
FieldsValid(fields) == Len(fields) = 5

\* parser.Parse returns no error: on the model's answers, the expressions
\* Parse is defined on.  "61 25 * * *" is refused for its ranges, "every day
\* at 7 pm" for not being numbers.
Parses(cronExpr) == cronExpr \in CronExprs

\* Server.handleCreateJob: the job is built with the expression
\* parseScheduleToCron returned, NextRunAt is set only when calculateNextRun
\* returned no error, and the job is saved.
HandleCreateJob ==
  /\ Cardinality(DOMAIN jobs) < Len(JobIds)
  /\ \E answer \in LLMAnswers, runErr \in BOOLEAN :
       LET id == JobIds[Cardinality(DOMAIN jobs) + 1]
           cronExpr == JoinFields(answer)
       IN IF runErr \/ ~FieldsValid(answer) THEN UNCHANGED jobs
          ELSE jobs' = Upsert(jobs, id,
                 RecurringJob(id, cronExpr, now, NilTime,
                   IF Parses(cronExpr) THEN calculateNextRun(cronExpr, now)
                   ELSE NilTime))
  /\ UNCHANGED <<now, nextTick, sched, executions, sessions, goroutines>>
  /\ UNCHANGED notSchedVars

\* Server.handleUpdateJob with a changed schedule text: the new expression
\* is stored, NextRunAt is replaced only when calculateNextRun returned no
\* error.
HandleUpdateJob ==
  /\ \E id \in DOMAIN jobs, answer \in LLMAnswers, runErr \in BOOLEAN :
       LET cronExpr == JoinFields(answer)
       IN IF runErr \/ ~FieldsValid(answer) THEN UNCHANGED jobs
          ELSE jobs' = [jobs EXCEPT ![id].cron = cronExpr,
                          ![id].nextRunAt =
                            IF Parses(cronExpr) THEN calculateNextRun(cronExpr, now)
                            ELSE @]
  /\ UNCHANGED <<now, nextTick, sched, executions, sessions, goroutines>>
  /\ UNCHANGED notSchedVars

NextCreate ==
  \/ Advance
  \/ HandleCreateJob
  \/ HandleUpdateJob

SpecCreate == InitSched /\ [][NextCreate]_vars

\* ------------------------------------------- the loop's saves, read back

\* How many turns of the loop are followed.
MaxTurns == 2

\* Session.ToStorage for the session the loop works on: its status and its
\* messages, each with the time it was appended at.
ToStorage(s) ==
  [id |-> "sess-1", agentId |-> "build", parentId |-> "", jobId |-> "",
   title |-> "", status |-> s.status, metadata |-> "null", messages |-> s.messages]

\* The tables after sessionManager.Save of the loop's session.
Saved(db, s) ==
  InsertMessages(DeleteMessages(UpsertSession(db, ToStorage(s)), "sess-1"),
                 "sess-1", s.messages, 1)

\* A message as the session appends it: its place in the session, its role
\* and time.Now().
TimedMessage(s, role, t) ==
  [id |-> Len(s.messages) + 1, role |-> role, timestamp |-> t]

\* The caller has created the session, added the user message and saved.
InitPersist ==
  /\ sess = [status |-> StatusCreated,
             messages |-> <<[id |-> 1, role |-> "user", timestamp |-> 0]>>]
  /\ cfgMaxSteps = 0
  /\ InitRest
  /\ CronIdle
  /\ SchedIdle
  /\ saved = ToStorage(sess)
  /\ rows = Saved([sessions |-> <<>>, messages |-> <<>>], sess)
  /\ loaded = <<>>
  /\ tx = [pc |-> "none"]
  /\ ToolsIdle

persistFrame ==
  <<stored, pc, step, cfgMaxSteps, totalUsage, cancelled, request, calls, results,
    pending, ret, hist0, responses, llmCalls, finished, dispatchVars, cronVars,
    nextTick, sched, jobs, executions, sessions, goroutines, tx, toolsVars>>

\* A step of the loop that runs tools (part_014, lines 113-175): the model
\* answers some time after the request, the assistant message is appended,
\* the tools run, the tool message is appended, within the clock's
\* resolution of the assistant message or later, and the session is saved.
TurnWithTools ==
  /\ sess.status = StatusCreated
  /\ Len(sess.messages) < 2 * MaxTurns
  /\ \E e \in {1, 2}, d \in {0, 1} :
       LET s1 == [sess EXCEPT !.messages =
                    Append(@, TimedMessage(sess, "assistant", now + e))]
           s2 == [s1 EXCEPT !.messages =
                    Append(@, TimedMessage(s1, "tool", now + e + d))]
       IN /\ sess' = s2
          /\ now' = now + e + d
          /\ saved' = ToStorage(s2)
          /\ rows' = Saved(rows, s2)
  /\ loaded' = <<>>
  /\ UNCHANGED persistFrame

\* The last step: the model answers without tool calls, or its call fails
\* (part_014, lines 116-140).
TurnFinal ==
  /\ sess.status = StatusCreated
  /\ \E e \in {1, 2}, failed \in BOOLEAN :
       LET s1 == IF failed THEN [sess EXCEPT !.status = StatusFailed]
                 ELSE [sess EXCEPT !.status = StatusCompleted,
                         !.messages = Append(@, TimedMessage(sess, "assistant", now + e))]
       IN /\ sess' = s1
          /\ now' = now + e
          /\ saved' = ToStorage(s1)
          /\ rows' = Saved(rows, s1)
  /\ loaded' = <<>>
  /\ UNCHANGED persistFrame

\* The session is read back: sessionManager.Get.
ReadBack ==
  /\ \E msgs \in ByTimestamp(MessagesOf(rows, "sess-1")) :
       loaded' = [status |-> rows.sessions["sess-1"].status, messages |-> msgs]
  /\ UNCHANGED <<sess, now, saved, rows>>
  /\ UNCHANGED persistFrame

NextPersist ==
  \/ TurnWithTools
  \/ TurnFinal
  \/ ReadBack

SpecPersist == InitPersist /\ [][NextPersist]_vars

\* ------------------------------------------------------------ file tools

\* The longest file and the longest content parameter followed, in
\* characters, and the largest line number a call names.
MaxFileLen == 4
MaxContentLen == 2
MaxLine == 4

\* The characters of the model's files: two letters and the newline.
Chars == {"a", "b", "\n"}

\* The strings of at most n characters.
Texts(n) == UNION {[1..k -> Chars] : k \in 0..n}

notFileVars == <<agentVars, dispatchVars, cronVars, schedVars, storeVars, regVars, eventVars, progVars, chatVars>>

\* strings.HasPrefix(s[i:], sub), positions counted from 1.
MatchesAt(s, sub, i) ==
  /\ i + Len(sub) - 1 <= Len(s)
  /\ SubSeq(s, i, i + Len(sub) - 1) = sub

\* strings.Index, counted from 1; 0 when sub does not occur.
Index(s, sub) ==
  IF \E i \in 1..Len(s) : MatchesAt(s, sub, i)
  THEN CHOOSE i \in 1..Len(s) :
         /\ MatchesAt(s, sub, i)
         /\ \A j \in 1..(i - 1) : ~MatchesAt(s, sub, j)
  ELSE 0

\* strings.Count for a non-empty sub: the matches found by searching on
\* after the end of each match, so matches that overlap count once.
RECURSIVE Count(_, _)
Count(s, sub) ==
  IF Index(s, sub) = 0 THEN 0
  ELSE 1 + Count(SubSeq(s, Index(s, sub) + Len(sub), Len(s)), sub)

\* strings.Replace(s, old, new, 1): the first match replaced.
ReplaceFirst(s, old, new) ==
  IF Index(s, old) = 0 THEN s
  ELSE SubSeq(s, 1, Index(s, old) - 1) \o new
         \o SubSeq(s, Index(s, old) + Len(old), Len(s))

\* strings.ReplaceAll for a non-empty old.
RECURSIVE ReplaceAll(_, _, _)
ReplaceAll(s, old, new) ==
  IF Index(s, old) = 0 THEN s
  ELSE SubSeq(s, 1, Index(s, old) - 1) \o new
         \o ReplaceAll(SubSeq(s, Index(s, old) + Len(old), Len(s)), old, new)

\* A tool's Result.
ToolResultFor(tool, success, error) ==
  [tool |-> tool, success |-> success, error |-> error]

\* EditTool.Execute on a file that exists and can be read and written.
EditExecute ==
  /\ toolCall.tool = "none"
  /\ \E old \in Texts(MaxContentLen), new \in Texts(MaxContentLen),
        replaceAll \in BOOLEAN :
       /\ toolCall' = [tool |-> "edit", old |-> old, new |-> new,
                       replaceAll |-> replaceAll, before |-> file]
       /\ IF old = <<>>
          THEN /\ toolRes' = ToolResultFor("edit", FALSE, "old_string is required")
               /\ file' = file
          ELSE IF old = new
          THEN /\ toolRes' = ToolResultFor("edit", FALSE,
                               "old_string and new_string must be different")
               /\ file' = file
          ELSE IF Count(file, old) = 0
          THEN /\ toolRes' = ToolResultFor("edit", FALSE, "old_string not found in file")
               /\ file' = file
          ELSE IF Count(file, old) > 1 /\ ~replaceAll
          THEN /\ toolRes' = ToolResultFor("edit", FALSE, "old_string found several times")
               /\ file' = file
          ELSE /\ toolRes' = ToolResultFor("edit", TRUE, "")
               /\ file' = IF replaceAll THEN ReplaceAll(file, old, new)
                          ELSE ReplaceFirst(file, old, new)
  /\ UNCHANGED notFileVars

\* strings.Split(s, "\n"): the pieces between the newlines, at least one.
RECURSIVE Split(_)
Split(s) ==
  IF Index(s, <<"\n">>) = 0 THEN <<s>>
  ELSE <<SubSeq(s, 1, Index(s, <<"\n">>) - 1)>>
         \o Split(SubSeq(s, Index(s, <<"\n">>) + 1, Len(s)))

\* strings.Join(lines, "\n").
RECURSIVE Join(_)
Join(lines) ==
  IF lines = <<>> THEN <<>>
  ELSE IF Len(lines) = 1 THEN lines[1]
  ELSE lines[1] \o <<"\n">> \o Join(Tail(lines))

\* splitLines: no line for the empty string; otherwise one final newline is
\* taken off and the rest is split.
splitLines(s) ==
  IF s = <<>> THEN [lines |-> <<>>, hadTrailingNewline |-> FALSE]
  ELSE IF s[Len(s)] = "\n"
  THEN [lines |-> Split(SubSeq(s, 1, Len(s) - 1)), hadTrailingNewline |-> TRUE]
  ELSE [lines |-> Split(s), hadTrailingNewline |-> FALSE]

shouldKeepTrailingNewline(originalTrailing, replacementTrailing, lineCount) ==
  IF replacementTrailing THEN TRUE
  ELSE IF originalTrailing /\ lineCount > 0 THEN TRUE
  ELSE FALSE

\* ReplaceLinesTool.Execute on a file that exists and can be read and
\* written, with a live context.
ReplaceLinesExecute ==
  /\ toolCall.tool = "none"
  /\ \E startLine \in 0..MaxLine, endLine \in 0..MaxLine,
        content \in Texts(MaxContentLen) :
       LET split == splitLines(file)
           lines == split.lines
           replacement == splitLines(content)
           newLines == SubSeq(lines, 1, startLine - 1) \o replacement.lines
                         \o SubSeq(lines, endLine + 1, Len(lines))
           newContent ==
             IF shouldKeepTrailingNewline(split.hadTrailingNewline,
                                          replacement.hadTrailingNewline, Len(newLines))
             THEN Join(newLines) \o <<"\n">> ELSE Join(newLines)
       IN /\ toolCall' = [tool |-> "replace_lines", startLine |-> startLine,
                          endLine |-> endLine, content |-> content, before |-> file]
          /\ IF startLine <= 0 \/ endLine <= 0
             THEN /\ toolRes' = ToolResultFor("replace_lines", FALSE,
                                  "start_line and end_line must be >= 1")
                  /\ file' = file
             ELSE IF startLine > endLine
             THEN /\ toolRes' = ToolResultFor("replace_lines", FALSE,
                                  "start_line must be <= end_line")
                  /\ file' = file
             ELSE IF endLine > Len(lines)
             THEN /\ toolRes' = ToolResultFor("replace_lines", FALSE,
                                  "line range exceeds file length")
                  /\ file' = file
             ELSE /\ toolRes' = ToolResultFor("replace_lines", TRUE, "")
                  /\ file' = newContent
  /\ UNCHANGED notFileVars

\* The after_line a call can carry: absent, or an integer.
AfterLines ==
  {[present |-> FALSE, value |-> 0]}
    \cup {[present |-> TRUE, value |-> v] : v \in (-2)..MaxLine}

\* json.Unmarshal into InsertLinesParams.AfterLine, an int: an absent key
\* leaves the field at its zero value.
AfterLineField(afterLine) == IF afterLine.present THEN afterLine.value ELSE 0

\* InsertLinesTool.Execute on a file that exists and can be read and
\* written, with a live context.
InsertLinesExecute ==
  /\ toolCall.tool = "none"
  /\ \E afterLine \in AfterLines, content \in Texts(MaxContentLen) :
       LET split == splitLines(file)
           lines == split.lines
           insertLines == splitLines(content).lines
           insertAfter == IF AfterLineField(afterLine) < 0 THEN Len(lines)
                          ELSE AfterLineField(afterLine)
           newLines == SubSeq(lines, 1, insertAfter) \o insertLines
                         \o SubSeq(lines, insertAfter + 1, Len(lines))
           newContent == IF split.hadTrailingNewline \/ Len(newLines) > 0
                         THEN Join(newLines) \o <<"\n">> ELSE Join(newLines)
       IN /\ toolCall' = [tool |-> "insert_lines", afterLine |-> afterLine,
                          content |-> content, before |-> file]
          /\ IF insertAfter > Len(lines)
             THEN /\ toolRes' = ToolResultFor("insert_lines", FALSE,
                                  "after_line exceeds file length")
                  /\ file' = file
             ELSE /\ toolRes' = ToolResultFor("insert_lines", TRUE, "")
                  /\ file' = newContent
  /\ UNCHANGED notFileVars

\* Any file of the model is on disk; no tool has been called.
InitFiles ==
  /\ file \in Texts(MaxFileLen)
  /\ toolCall = [tool |-> "none"]
  /\ toolRes = [tool |-> "none"]
  /\ RegIdle
  /\ AgentIdle
  /\ CronIdle
  /\ SchedIdle
  /\ StoreIdle
  /\ EventsIdle
  /\ ProgIdle
  /\ ChatIdle

NextFiles ==
  \/ EditExecute
  \/ ReplaceLinesExecute
  \/ InsertLinesExecute

SpecFiles == InitFiles /\ [][NextFiles]_vars

\* ------------------------------------------------------------------ grep

maxGrepResults == 500

\* The longest file of a searched tree, in lines.
MaxGrepLines == 2

\* The files the glob finds, in the order of their paths.
GrepPaths == <<"a.go", "b.go", "c.go">>

\* A file of the tree: binary (isBinaryFile, the file is skipped), or its
\* lines, of each of which only whether the pattern matches it is kept.
GrepFiles ==
  {[binary |-> TRUE, lines |-> <<>>]}
    \cup {[binary |-> FALSE, lines |-> l] :
            l \in UNION {[1..k -> BOOLEAN] : k \in 0..MaxGrepLines}}

\* searchFile without stopAtFirst: the matches kept, at most maxMatches of
\* them when that is positive, and the number of matching lines.
searchFile(lines, maxMatches) ==
  LET totalCount == Cardinality({i \in 1..Len(lines) : lines[i]})
  IN [matches |-> IF maxMatches <= 0 \/ totalCount < maxMatches THEN totalCount
                  ELSE maxMatches,
      totalCount |-> totalCount]

\* The loop over the files from the i-th on: nMatches is len(matches) so far,
\* counts is fileCounts.  The loop ends when the matches kept reach
\* maxResults.
RECURSIVE SearchFiles(_, _, _, _, _, _)
SearchFiles(tree, i, nMatches, counts, maxResults, maxPerFile) ==
  IF i > Len(GrepPaths) THEN counts
  ELSE IF tree[i].binary
  THEN SearchFiles(tree, i + 1, nMatches, counts, maxResults, maxPerFile)
  ELSE LET found == searchFile(tree[i].lines, maxPerFile)
           counts2 == IF found.totalCount > 0
                      THEN [p \in DOMAIN counts \cup {i} |->
                              IF p = i THEN found.totalCount ELSE counts[p]]
                      ELSE counts
       IN IF nMatches + found.matches >= maxResults THEN counts2
          ELSE SearchFiles(tree, i + 1, nMatches + found.matches, counts2,
                           maxResults, maxPerFile)

\* fmt.Sprintf("%s: %d", path, n).
CountLine(path, n) == path \o ": " \o ToString(n)

\* The count lines for the files of counts, after sort.Strings of the paths.
RECURSIVE CountLines(_, _)
CountLines(counts, i) ==
  IF i > Len(GrepPaths) THEN <<>>
  ELSE IF i \in DOMAIN counts
  THEN <<CountLine(GrepPaths[i], counts[i])>> \o CountLines(counts, i + 1)
  ELSE CountLines(counts, i + 1)

\* GrepTool.Execute in count mode, with a pattern that compiles and a live
\* context.  A max_results of 0 is an absent one.
GrepExecute ==
  /\ toolCall.tool = "none"
  /\ \E pMaxResults \in 0..2, pMaxPerFile \in 0..1 :
       LET maxResults == IF pMaxResults <= 0 \/ pMaxResults > maxGrepResults
                         THEN maxGrepResults ELSE pMaxResults
           counts == SearchFiles(file, 1, 0, <<>>, maxResults, pMaxPerFile)
       IN /\ toolCall' = [tool |-> "grep", mode |-> "count",
                          maxResults |-> pMaxResults, maxPerFile |-> pMaxPerFile]
          /\ toolRes' = [tool |-> "grep", success |-> TRUE,
                         output |-> IF DOMAIN counts = {} THEN <<"No matches found">>
                                    ELSE CountLines(counts, 1)]
  /\ UNCHANGED file
  /\ UNCHANGED notFileVars

\* Any tree of the model is on disk.
InitGrep ==
  /\ file \in [1..Len(GrepPaths) -> GrepFiles]
  /\ toolCall = [tool |-> "none"]
  /\ toolRes = [tool |-> "none"]
  /\ RegIdle
  /\ AgentIdle
  /\ CronIdle
  /\ SchedIdle
  /\ StoreIdle
  /\ EventsIdle
  /\ ProgIdle
  /\ ChatIdle

SpecGrep == InitGrep /\ [][GrepExecute]_vars

\* ----------------------------------------------------- the tool registry

\* The goroutines that call the Manager, and how many calls they make in all.
Procs == {"g1", "g2", "g3"}
MaxRegCalls == 3

\* The tools a caller registers: two names, and two tools of each name.
RegTools == [name : {"bash", "grep"}, id : {1, 2}]

\* Get's second result is false: no tool of that name.
NoTool == 0

\* A goroutine that is not in a call of the Manager.
IdleProc ==
  [op |-> "none", pc |-> "idle", name |-> "", tool |-> NoTool,
   snap |-> <<>>, todo |-> {}, defs |-> {}]

notRegVars == <<agentVars, dispatchVars, cronVars, schedVars, storeVars, fileVars, eventVars, progVars, chatVars>>

\* Faulty variant: the writer only waits for another writer.
CanLock_AmongReaders(l) == l.writer = "none"

\* sync.RWMutex.Lock returns when no writer and no reader holds the lock.
CanLock(l) == l.writer = "none" /\ l.readers = {}

\* sync.RWMutex.RLock returns only while no writer holds the lock.
CanRLock(l) == l.writer = "none"

\* m.tools[name]: the tool and ok.
Lookup(reg, name) == IF name \in DOMAIN reg THEN reg[name] ELSE NoTool

\* A goroutine calls Register, Get, Execute or GetDefinitions.
CallManager(p) ==
  /\ procs[p].pc = "idle"
  /\ regCalls < MaxRegCalls
  /\ regCalls' = regCalls + 1
  /\ \/ \E t \in RegTools :
          procs' = [procs EXCEPT ![p] =
                      [IdleProc EXCEPT !.op = "register", !.pc = "lock",
                                       !.name = t.name, !.tool = t.id]]
     \/ \E op \in {"get", "execute"}, name \in {"bash", "grep", "task"} :
          procs' = [procs EXCEPT ![p] =
                      [IdleProc EXCEPT !.op = op, !.pc = "rlock", !.name = name]]
     \/ procs' = [procs EXCEPT ![p] =
                    [IdleProc EXCEPT !.op = "defs", !.pc = "rlock"]]
  /\ UNCHANGED <<registry, lock, registered>>
  /\ UNCHANGED notRegVars

\* Register: m.mu.Lock().
RegisterLock(p) ==
  /\ procs[p].pc = "lock"
  /\ CanLock(lock)
  /\ lock' = [lock EXCEPT !.writer = p]
  /\ procs' = [procs EXCEPT ![p].pc = "write", ![p].snap = registry]
  /\ UNCHANGED <<registry, registered, regCalls>>
  /\ UNCHANGED notRegVars

\* Register: m.tools[tool.Name()] = tool.
RegisterWrite(p) ==
  /\ procs[p].pc = "write"
  /\ registry' = [n \in DOMAIN registry \cup {procs[p].name} |->
                    IF n = procs[p].name THEN procs[p].tool ELSE registry[n]]
  /\ registered' = Append(registered, [name |-> procs[p].name, id |-> procs[p].tool])
  /\ procs' = [procs EXCEPT ![p].pc = "unlock"]
  /\ UNCHANGED <<lock, regCalls>>
  /\ UNCHANGED notRegVars

\* Register: the deferred m.mu.Unlock().
RegisterUnlock(p) ==
  /\ procs[p].pc = "unlock"
  /\ lock' = [lock EXCEPT !.writer = IF @ = p THEN "none" ELSE @]
  /\ procs' = [procs EXCEPT ![p].pc = "idle"]
  /\ UNCHANGED <<registry, registered, regCalls>>
  /\ UNCHANGED notRegVars

\* Get and GetDefinitions: m.mu.RLock().  snap is the registry at that moment.
ReadLock(p) ==
  /\ procs[p].pc = "rlock"
  /\ CanRLock(lock)
  /\ lock' = [lock EXCEPT !.readers = @ \cup {p}]
  /\ procs' = [procs EXCEPT ![p].pc = "read", ![p].snap = registry,
                            ![p].todo = DOMAIN registry]
  /\ UNCHANGED <<registry, registered, regCalls>>
  /\ UNCHANGED notRegVars

\* Get: tool, ok := m.tools[name].
GetRead(p) ==
  /\ procs[p].pc = "read"
  /\ procs[p].op \in {"get", "execute"}
  /\ procs' = [procs EXCEPT ![p].pc = "runlock",
                            ![p].tool = Lookup(registry, procs[p].name)]
  /\ UNCHANGED <<registry, lock, registered, regCalls>>
  /\ UNCHANGED notRegVars

\* GetDefinitions: one round of the range over m.tools, in any order; after
\* the last one the function returns.
DefsRead(p) ==
  /\ procs[p].pc = "read"
  /\ procs[p].op = "defs"
  /\ \/ /\ procs[p].todo = {}
        /\ procs' = [procs EXCEPT ![p].pc = "runlock"]
     \/ \E n \in procs[p].todo :
          procs' = [procs EXCEPT
                      ![p].todo = @ \ {n},
                      ![p].defs = @ \cup {[name |-> n, id |-> Lookup(registry, n)]}]
  /\ UNCHANGED <<registry, lock, registered, regCalls>>
  /\ UNCHANGED notRegVars

\* Get and GetDefinitions: the deferred m.mu.RUnlock().  Execute goes on to
\* run the tool it got, outside the lock.
ReadUnlock(p) ==
  /\ procs[p].pc = "runlock"
  /\ lock' = [lock EXCEPT !.readers = @ \ {p}]
  /\ procs' = [procs EXCEPT ![p].pc = IF procs[p].op = "execute" THEN "run" ELSE "idle"]
  /\ UNCHANGED <<registry, registered, regCalls>>
  /\ UNCHANGED notRegVars

\* Execute: "tool not found", or tool.Execute returns.
ExecuteRun(p) ==
  /\ procs[p].pc = "run"
  /\ procs' = [procs EXCEPT ![p].pc = "idle"]
  /\ UNCHANGED <<registry, lock, registered, regCalls>>
  /\ UNCHANGED notRegVars

\* NewManager has registered its built-in tools; no goroutine is in a call.
InitRegistry ==
  /\ registry = [n \in {"bash", "grep"} |-> 1]
  /\ lock = [writer |-> "none", readers |-> {}]
  /\ procs = [p \in Procs |-> IdleProc]
  /\ registered = <<[name |-> "bash", id |-> 1], [name |-> "grep", id |-> 1]>>
  /\ regCalls = 0
  /\ FileIdle
  /\ AgentIdle
  /\ CronIdle
  /\ SchedIdle
  /\ StoreIdle
  /\ EventsIdle
  /\ ProgIdle
  /\ ChatIdle

NextRegistry ==
  \E p \in Procs :
    \/ CallManager(p)
    \/ RegisterLock(p)
    \/ RegisterWrite(p)
    \/ RegisterUnlock(p)
    \/ ReadLock(p)
    \/ GetRead(p)
    \/ DefsRead(p)
    \/ ReadUnlock(p)
    \/ ExecuteRun(p)

SpecRegistry == InitRegistry /\ [][NextRegistry]_vars

\* ------------------------------------------------------- the run's events

\* How many steps of a run with a callback are followed.
MaxEventSteps == 3

\* agent.Event: its type and step.
Event(type, s) == [type |-> type, step |-> s]

\* The content deltas a streaming client can hand to its callback during one
\* call; an empty delta is one too.
DeltaStreams == {<<>>, <<"he">>, <<"he", "", "llo">>}

\* callLLM's stream callback, lines 189-201: one assistant_delta for each
\* content delta that is not empty, if the run has a callback.
RECURSIVE DeltaEvents(_, _, _)
DeltaEvents(hasCallback, s, deltas) ==
  IF deltas = <<>> THEN <<>>
  ELSE (IF hasCallback /\ Head(deltas) # "" THEN <<Event("assistant_delta", s)>>
        ELSE <<>>)
         \o DeltaEvents(hasCallback, s, Tail(deltas))

\* Faulty variant: the step is reported complete before its tools are.
ToolStepEvents_Swapped(hasCallback, s) ==
  IF hasCallback THEN <<Event("step_completed", s), Event("tool_completed", s)>>
  ELSE <<>>

\* loop, lines 176-179: the events at the end of a step that ran tools.
ToolStepEvents(hasCallback, s) ==
  IF hasCallback THEN <<Event("tool_completed", s), Event("step_completed", s)>>
  ELSE <<>>

eventsFrame ==
  <<sess, stored, totalUsage, request, calls, results, pending, hist0, llmCalls,
    finished, cfgMaxSteps, onEvent, streaming, dispatchVars, cronVars, schedVars,
    storeVars, fileVars, regVars, progVars, chatVars>>

\* A run is started, with or without a callback, on a client that streams
\* or does not.
InitEvents ==
  /\ AgentIdle
  /\ CronIdle
  /\ SchedIdle
  /\ StoreIdle
  /\ FileIdle
  /\ RegIdle
  /\ events = <<>>
  /\ onEvent \in BOOLEAN
  /\ streaming \in BOOLEAN
  /\ ProgIdle
  /\ ChatIdle

\* The token is triggered while the run is under way.
EvCancel ==
  /\ pc \in {"start", "llm", "tools"}
  /\ ~cancelled
  /\ cancelled' = TRUE
  /\ UNCHANGED <<pc, step, responses, ret, events>>
  /\ UNCHANGED eventsFrame

\* loop, lines 94-110: the top of a step returns on a triggered token or at
\* the step limit, or goes on to the model call.
EvStepTop ==
  /\ pc = "start"
  /\ IF cancelled
     THEN /\ pc' = "returned"
          /\ ret' = Returned("", ZeroUsage, ErrCanceled)
          /\ step' = step
     ELSE IF AtLimit(step, MaxEventSteps)
     THEN /\ pc' = "returned"
          /\ ret' = Returned("", ZeroUsage, NoErr)
          /\ step' = step
     ELSE /\ pc' = "llm"
          /\ ret' = ret
          /\ step' = step + 1
  /\ UNCHANGED <<cancelled, responses, events>>
  /\ UNCHANGED eventsFrame

\* loop, lines 116-121 and callLLM: the call fails, after any number of
\* deltas on a client that streams.
EvLLMError ==
  /\ pc = "llm"
  /\ \E deltas \in (IF streaming THEN DeltaStreams ELSE {<<>>}) :
       events' = events \o DeltaEvents(onEvent, step, deltas)
  /\ pc' = "returned"
  /\ ret' = Returned("", ZeroUsage, "LLM error: api error")
  /\ UNCHANGED <<cancelled, step, responses>>
  /\ UNCHANGED eventsFrame

\* loop, lines 127-137 and callLLM: a response without tool calls; the run
\* reports the step and returns.
EvFinal ==
  /\ pc = "llm"
  /\ \E deltas \in (IF streaming THEN DeltaStreams ELSE {<<>>}) :
       events' = events \o DeltaEvents(onEvent, step, deltas)
                   \o (IF onEvent THEN <<Event("step_completed", step)>> ELSE <<>>)
  /\ responses' = Append(responses, Response("done", <<>>, ZeroUsage))
  /\ pc' = "returned"
  /\ ret' = Returned("done", ZeroUsage, NoErr)
  /\ UNCHANGED <<cancelled, step>>
  /\ UNCHANGED eventsFrame

\* loop, lines 139-156 and callLLM: a response with tool calls; the run
\* reports that the tools are being executed and calls ExecuteParallel.
EvToolsBegin ==
  /\ pc = "llm"
  /\ \E deltas \in (IF streaming THEN DeltaStreams ELSE {<<>>}) :
       events' = events \o DeltaEvents(onEvent, step, deltas)
                   \o (IF onEvent THEN <<Event("tool_executing", step)>> ELSE <<>>)
  /\ responses' = Append(responses, StubbornResponse)
  /\ pc' = "tools"
  /\ UNCHANGED <<cancelled, step, ret>>
  /\ UNCHANGED eventsFrame

\* loop, lines 156-179: ExecuteParallel has returned, the results are
\* recorded, the step is saved and reported.
EvToolsEnd ==
  /\ pc = "tools"
  /\ events' = events \o ToolStepEvents(onEvent, step)
  /\ pc' = "start"
  /\ UNCHANGED <<cancelled, step, responses, ret>>
  /\ UNCHANGED eventsFrame

NextEvents ==
  \/ EvCancel
  \/ EvStepTop
  \/ EvLLMError
  \/ EvFinal
  \/ EvToolsBegin
  \/ EvToolsEnd

SpecEvents == InitEvents /\ [][NextEvents]_vars

\* ------------------------------------------------- session_task_progress

\* How many calls of the tool are followed.
MaxProgCalls == 3

\* The sessions that have a progress text, and the contents a call carries;
\* the empty string is an absent session id or an absent content.
ProgSessions == {"s1", "s2"}
ProgContents == {"", "- [ ] A", "- [x] B"}

notProgVars ==
  <<agentVars, dispatchVars, cronVars, schedVars, storeVars, fileVars, regVars,
    eventVars, chatVars>>

\* mockTaskProgressStore.GetSessionTaskProgress.
GetSessionTaskProgress(store, sessionID) == store[sessionID]

\* Faulty variant: the text is stored for every session.
SetSessionTaskProgress_AllSessions(store, sessionID, text) ==
  [s \in DOMAIN store |-> text]

\* mockTaskProgressStore.SetSessionTaskProgress.
SetSessionTaskProgress(store, sessionID, text) ==
  [store EXCEPT ![sessionID] = text]

\* The tool's Result, with the error Execute returns next to it.
ProgResult(action, success, output, error) ==
  [action |-> action, success |-> success, output |-> output, error |-> error,
   err |-> NoErr]

\* The text after append: the new content after the existing text and a
\* newline.  On an empty text the separator may or may not be written.
Appended(old, content) ==
  IF old = "" THEN {content, "\n" \o content} ELSE {old \o "\n" \o content}

\* SessionTaskProgressTool.Execute.
ProgressExecute ==
  /\ progCalls < MaxProgCalls
  /\ progCalls' = progCalls + 1
  /\ \E sessionID \in ProgSessions \cup {""},
        action \in {"set", "append", "get", "invalid"},
        content \in ProgContents :
       /\ progCall' = [action |-> action, sessionID |-> sessionID,
                       content |-> content, before |-> progress]
       /\ IF sessionID = ""
          THEN /\ progRes' = ProgResult(action, FALSE, "", "session_id not found in context")
               /\ progress' = progress
          ELSE IF action = "get"
          THEN /\ progRes' = ProgResult(action, TRUE,
                               GetSessionTaskProgress(progress, sessionID), "")
               /\ progress' = progress
          ELSE IF action \in {"set", "append"} /\ content = ""
          THEN /\ progRes' = ProgResult(action, FALSE, "", "content is required")
               /\ progress' = progress
          ELSE IF action = "set"
          THEN /\ progRes' = ProgResult(action, TRUE, "", "")
               /\ progress' = SetSessionTaskProgress(progress, sessionID, content)
          ELSE IF action = "append"
          THEN /\ progRes' = ProgResult(action, TRUE, "", "")
               /\ \E text \in Appended(GetSessionTaskProgress(progress, sessionID), content) :
                    progress' = SetSessionTaskProgress(progress, sessionID, text)
          ELSE /\ progRes' = ProgResult(action, FALSE, "", "unknown action")
               /\ progress' = progress
  /\ UNCHANGED notProgVars

\* newMockTaskProgressStore: no session has a progress text.
InitProgress ==
  /\ progress = [s \in ProgSessions |-> ""]
  /\ progCall = [action |-> "none"]
  /\ progRes = [action |-> "none"]
  /\ progCalls = 0
  /\ AgentIdle
  /\ CronIdle
  /\ SchedIdle
  /\ StoreIdle
  /\ FileIdle
  /\ RegIdle
  /\ EventsIdle
  /\ ChatIdle

SpecProgress == InitProgress /\ [][ProgressExecute]_vars

\* ------------------------------------------------ concurrent chat requests

\* The chat requests the server serves, each in the goroutine net/http
\* starts for it, the sessions they name and the tool steps a run makes at
\* most.
ChatRequests == {"r1", "r2"}
ChatSessions == {"s1", "s2"}
MaxChatSteps == 1

notChatVars ==
  <<agentVars, dispatchVars, cronVars, schedVars, storeVars, fileVars, regVars,
    eventVars, progVars>>

\* A message of a chat session: its role and the request it came from.
ChatMsg(role, r) == [role |-> role, request |-> r]

\* A request that has not arrived.
NoRequest == [pc |-> "none", sessionID |-> "", copy |-> <<>>, steps |-> 0]

\* handleChat, lines 867-889: the request arrives, the session is read from
\* the store into a Session of the request's own and the user message is
\* added to it.
ChatGet(r) ==
  /\ chatReqs[r].pc = "none"
  /\ \E id \in ChatSessions :
       chatReqs' = [chatReqs EXCEPT ![r] =
                      [pc |-> "loop", sessionID |-> id,
                       copy |-> Append(chatStore[id], ChatMsg("user", r)),
                       steps |-> 0]]
  /\ UNCHANGED chatStore
  /\ UNCHANGED notChatVars

\* handleChat, line 904, and loop: a step with tools appends the assistant
\* message and the tool results to the request's Session and saves it.
ChatToolStep(r) ==
  /\ chatReqs[r].pc = "loop"
  /\ chatReqs[r].steps < MaxChatSteps
  /\ LET copy == chatReqs[r].copy \o <<ChatMsg("assistant", r), ChatMsg("tool", r)>>
     IN /\ chatReqs' = [chatReqs EXCEPT ![r].copy = copy, ![r].steps = @ + 1]
        /\ chatStore' = [chatStore EXCEPT ![chatReqs[r].sessionID] = copy]
  /\ UNCHANGED notChatVars

\* handleChat, lines 904-923, and loop: the final answer is appended, the
\* Session is saved and the response is written.
ChatFinal(r) ==
  /\ chatReqs[r].pc = "loop"
  /\ LET copy == Append(chatReqs[r].copy, ChatMsg("assistant", r))
     IN /\ chatReqs' = [chatReqs EXCEPT ![r].copy = copy, ![r].pc = "done"]
        /\ chatStore' = [chatStore EXCEPT ![chatReqs[r].sessionID] = copy]
  /\ UNCHANGED notChatVars

\* Two sessions have been created; no request has arrived.
InitChat ==
  /\ chatStore = [id \in ChatSessions |-> <<>>]
  /\ chatReqs = [r \in ChatRequests |-> NoRequest]
  /\ AgentIdle
  /\ CronIdle
  /\ SchedIdle
  /\ StoreIdle
  /\ FileIdle
  /\ RegIdle
  /\ EventsIdle
  /\ ProgIdle

NextChat ==
  \E r \in ChatRequests :
    \/ ChatGet(r)
    \/ ChatToolStep(r)
    \/ ChatFinal(r)

SpecChat == InitChat /\ [][NextChat]_vars

\* ----------------------------------------------------- pending questions

\* The session Manager's question methods, each a Get, a change and a Save
\* on the store.  chatStore holds the stored sessions, chatReqs the last
\* call made and what it returned.

StatusInputRequired == "input_required"

\* How many messages a session comes to hold.
MaxAnswers == 2

QuestionSessions == {"s1"}

\* A session id the store does not have.
QuestionNoSession == "s0"

QuestionStatuses ==
  {StatusCreated, StatusRunning, StatusCompleted, StatusFailed, StatusPaused,
   StatusInputRequired}

\* QuestionData, of which the question is kept.
Questions == {"Which branch?", "Proceed?"}

Answers == {"main", "yes"}

\* delete(m, key) on the metadata map.
DeleteKey(m, key) == [k \in DOMAIN m \ {key} |-> m[k]]

\* m[key] = v on the metadata map.
SetKey(m, key, v) == [k \in DOMAIN m \cup {key} |-> IF k = key THEN v ELSE m[k]]

\* Faulty variant: an answer is taken whatever the session's status.
WaitingForInput_Always(qs) == TRUE

\* AnswerQuestion, line 288: the session waits for the user's input.
WaitingForInput(qs) == qs.status = StatusInputRequired

\* GetPendingQuestion, lines 258-278, on the session read: the question in
\* the metadata of a session that waits for input, "nil" if there is none.
PendingQuestion(qs) ==
  IF qs.status # StatusInputRequired THEN "nil"
  ELSE IF "pending_question" \notin DOMAIN qs.metadata THEN "nil"
  ELSE qs.metadata["pending_question"]

\* The record of a call: the method, the session id, the store before it,
\* the error and the question it returned, and the call made before it.
QuestionCall(op, id, err, question) ==
  [op |-> op, sessionID |-> id, before |-> chatStore, err |-> err,
   question |-> question,
   prev |-> [op |-> chatReqs.op, sessionID |-> chatReqs.sessionID,
             err |-> chatReqs.err]]

\* Manager.SetPendingQuestion, by the question tool.
SetPendingQuestion ==
  /\ \E id \in QuestionSessions, q \in Questions :
       /\ chatStore' = [chatStore EXCEPT ![id].metadata =
                          SetKey(@, "pending_question", q)]
       /\ chatReqs' = QuestionCall("SetPendingQuestion", id, NoErr, "nil")
  /\ UNCHANGED notChatVars

\* Manager.SetSessionStatus, by the question tool, and the statuses the
\* agent loop sets.
SetSessionStatus ==
  /\ \E id \in QuestionSessions, status \in QuestionStatuses :
       /\ chatStore' = [chatStore EXCEPT ![id].status = status]
       /\ chatReqs' = QuestionCall("SetSessionStatus", id, NoErr, "nil")
  /\ UNCHANGED notChatVars

\* Manager.GetPendingQuestion.
GetPendingQuestion ==
  /\ \E id \in QuestionSessions \cup {QuestionNoSession} :
       chatReqs' =
         IF id \notin DOMAIN chatStore
           THEN QuestionCall("GetPendingQuestion", id, "session not found", "nil")
           ELSE QuestionCall("GetPendingQuestion", id, NoErr,
                             PendingQuestion(chatStore[id]))
  /\ UNCHANGED chatStore
  /\ UNCHANGED notChatVars

\* Manager.AnswerQuestion: the session is read; if it does not wait for
\* input the call returns an error; otherwise the question is deleted from
\* the metadata, the answer added as a user message, the status set to
\* running and the session saved.
AnswerQuestion ==
  /\ \E id \in QuestionSessions \cup {QuestionNoSession}, answer \in Answers :
       IF id \notin DOMAIN chatStore
         THEN /\ chatReqs' = QuestionCall("AnswerQuestion", id, "session not found", "nil")
              /\ UNCHANGED chatStore
       ELSE IF ~WaitingForInput(chatStore[id])
         THEN /\ chatReqs' = QuestionCall("AnswerQuestion", id,
                               "session is not waiting for input", "nil")
              /\ UNCHANGED chatStore
       ELSE /\ Len(chatStore[id].messages) < MaxAnswers
            /\ chatStore' = [chatStore EXCEPT ![id] =
                 [status |-> StatusRunning,
                  metadata |-> DeleteKey(chatStore[id].metadata, "pending_question"),
                  messages |-> Append(chatStore[id].messages,
                                      Msg("user", answer, <<>>, <<>>))]]
            /\ chatReqs' = QuestionCall("AnswerQuestion", id, NoErr, "nil")
  /\ UNCHANGED notChatVars

\* One session has been created, with a title key in its metadata or with
\* none; no call has been made.
InitQuestion ==
  /\ chatStore \in [QuestionSessions ->
                      [status : {StatusCreated},
                       metadata : {<<>>, [source |-> "cli"]},
                       messages : {<<>>}]]
  /\ chatReqs = [op |-> "none", sessionID |-> "", err |-> NoErr]
  /\ AgentIdle
  /\ CronIdle
  /\ SchedIdle
  /\ StoreIdle
  /\ FileIdle
  /\ RegIdle
  /\ EventsIdle
  /\ ProgIdle

NextQuestion ==
  \/ SetPendingQuestion
  \/ SetSessionStatus
  \/ GetPendingQuestion
  \/ AnswerQuestion

SpecQuestion == InitQuestion /\ [][NextQuestion]_vars

\* ------------------------------------------------------------ find_files

defaultFindFilesPageSize == 30

maxFindFilesLimit == 2000

\* The largest page number asked for.
MaxFindPage == 4

\* How many entries the glob returns: none, a few, one more than the default
\* page size, one more than the largest page size.
FindCounts == {0, 2, 3, 31, 101}

\* The relative path of the k-th entry; the glob returns the entries of the
\* directory in the order of their names.
FindPath(k) ==
  "f" \o (IF k < 10 THEN "00" ELSE IF k < 100 THEN "0" ELSE "") \o ToString(k) \o ".go"

\* The entries the glob returns for a directory of n entries, the newest
\* first or the oldest first; the first entry may be one the loop skips (a
\* directory, an excluded or a hidden path).
FindTree(n, newestFirst, skipFirst) ==
  [k \in 1..n |-> [path |-> k,
                   modTime |-> IF newestFirst THEN n + 1 - k ELSE k,
                   skip |-> skipFirst /\ k = 1]]

\* The loop over the matches (lines 165-193): the entries that are not
\* skipped, in the order of the glob, the first limit of them.
Collected(matches, limit) ==
  LET before == [k \in 1..Len(matches) |->
                   Cardinality({j \in 1..(k - 1) : ~matches[j].skip})]
      kept == {k \in 1..Len(matches) : ~matches[k].skip}
      n == IF Cardinality(kept) < limit THEN Cardinality(kept) ELSE limit
  IN [i \in 1..n |-> matches[CHOOSE k \in kept : before[k] = i - 1]]

\* sort.Slice under the sort mode (lines 196-205): by path ascending, by
\* modification time descending, or left as collected.  No two entries have
\* the same path or the same time.
SortResults(found, sortMode) ==
  LET before(a, b) == IF sortMode = "path" THEN a.path < b.path
                      ELSE a.modTime > b.modTime
      rank == [k \in 1..Len(found) |->
                 Cardinality({j \in 1..Len(found) : before(found[j], found[k])})]
  IN IF sortMode = "none" THEN found
     ELSE [i \in 1..Len(found) |-> found[CHOOSE k \in 1..Len(found) : rank[k] = i - 1]]

\* FindFilesTool.Execute from line 121 on, with a sort mode it knows and a
\* glob that succeeds.  The output is the lines joined by newlines, then the
\* footer.
FindFiles(matches, pPage, pPageSize, pMaxResults, sortMode) ==
  LET page == IF pPage <= 0 THEN 1 ELSE pPage
      size0 == IF pPageSize <= 0 THEN defaultFindFilesPageSize ELSE pPageSize
      pageSize == IF size0 > 100 THEN 100 ELSE size0
      limit0 == IF pMaxResults <= 0 THEN maxFindFilesLimit ELSE pMaxResults
      limit == IF limit0 > maxFindFilesLimit THEN maxFindFilesLimit ELSE limit0
      found == SortResults(Collected(matches, limit), sortMode)
      totalResults == Len(found)
      totalPages == (totalResults + pageSize - 1) \div pageSize
      startIdx == (page - 1) * pageSize
      endIdx == IF startIdx + pageSize > totalResults THEN totalResults
                ELSE startIdx + pageSize
  IN IF totalResults = 0
       THEN [tool |-> "find_files", success |-> TRUE, lines |-> <<>>,
             footer |-> "No files found"]
     ELSE IF page > totalPages
       THEN [tool |-> "find_files", success |-> TRUE, lines |-> <<>>,
             footer |-> "Page " \o ToString(page) \o " does not exist. Total pages: "
                          \o ToString(totalPages)]
     ELSE [tool |-> "find_files", success |-> TRUE,
           lines |-> [i \in 1..(endIdx - startIdx) |-> FindPath(found[startIdx + i].path)],
           footer |->
             IF totalPages > 1
               THEN "\n\nPage " \o ToString(page) \o " of " \o ToString(totalPages)
                      \o " (showing " \o ToString(startIdx + 1) \o "-" \o ToString(endIdx)
                      \o " of " \o ToString(totalResults) \o " files)"
                      \o (IF page < totalPages
                            THEN "\nUse page=" \o ToString(page + 1) \o " for next page"
                            ELSE "")
               ELSE "\n\n(showing all " \o ToString(totalResults) \o " files)"]

\* One call of the tool on the tree on disk.  An absent page, page_size or
\* max_results is 0.
FindExecute ==
  /\ toolCall.tool = "none"
  /\ \E pPage \in 0..MaxFindPage, pPageSize \in {0, 1, 2, 100, 101},
        pMaxResults \in 0..2, sortMode \in {"path", "mtime", "none"} :
       /\ toolCall' = [tool |-> "find_files", page |-> pPage, pageSize |-> pPageSize,
                       maxResults |-> pMaxResults, sort |-> sortMode]
       /\ toolRes' = FindFiles(file, pPage, pPageSize, pMaxResults, sortMode)
  /\ UNCHANGED file
  /\ UNCHANGED notFileVars

\* Any tree of the model is on disk.
InitFind ==
  /\ file \in {FindTree(n, newestFirst, skipFirst) :
                 n \in FindCounts, newestFirst \in BOOLEAN, skipFirst \in BOOLEAN}
  /\ toolCall = [tool |-> "none"]
  /\ toolRes = [tool |-> "none"]
  /\ RegIdle
  /\ AgentIdle
  /\ CronIdle
  /\ SchedIdle
  /\ StoreIdle
  /\ EventsIdle
  /\ ProgIdle
  /\ ChatIdle

SpecFind == InitFind /\ [][FindExecute]_vars

\* ------------------------------------------------------------ properties

Last(s) == s[Len(s)]

\* The assistant message at i has tool calls and no tool message after it.
Dangling(h, i) ==
  /\ IsToolTurn(h[i])
  /\ (i = Len(h) \/ h[i + 1].role # "tool")

\* The assistant message at i is followed by exactly one tool message, whose
\* results carry the ids of its calls, position by position.
Answered(h, i) ==
  /\ i + 1 <= Len(h)
  /\ h[i + 1].role = "tool"
  /\ Len(h[i + 1].toolResults) = Len(h[i].toolCalls)
  /\ \A j \in 1..Len(h[i].toolCalls) :
       h[i + 1].toolResults[j].toolCallId = h[i].toolCalls[j].id
  /\ (i + 2 <= Len(h) => h[i + 2].role # "tool")

Paired(h) == \A i \in 1..Len(h) : IsToolTurn(h[i]) => Answered(h, i)

\* C1: in every snapshot the loop saves, and in the session it returns with,
\* each assistant message with tool calls is followed by exactly one tool
\* message whose results carry that message's call ids in order.
C1_Paired ==
  /\ stored.written => Paired(stored.messages)
  /\ pc = "returned" => Paired(sess.messages)

C1_Witness ==
  /\ pc = "returned"
  /\ stored.written
  /\ \E i \in 1..Len(hist0) : Dangling(hist0, i)
  /\ \E i \in 1..Len(sess.messages) :
       /\ Len(sess.messages[i].toolCalls) = 2
       /\ sess.messages[i + 1].toolResults[1].isError

\* C2: when every goroutine of a batch is done, ExecuteParallel's result
\* slice has one entry per call and entry i carries call i's id, whatever
\* the order in which the calls finished.
C2_Aligned ==
  (pc = "tools" /\ pending = {}) =>
    /\ Len(results) = Len(calls)
    /\ \A i \in 1..Len(calls) : results[i].toolCallId = calls[i].id

C2_Witness ==
  /\ pc = "tools"
  /\ pending = {}
  /\ Len(calls) = 2
  /\ finished[1].idx = 2
  /\ finished[2].idx = 1

\* The messages of h[1..n] that are not dangling, in their order.
RECURSIVE KeptUpTo(_, _)
KeptUpTo(h, n) ==
  IF n = 0 THEN <<>>
  ELSE IF Dangling(h, n) THEN KeptUpTo(h, n - 1)
  ELSE Append(KeptUpTo(h, n - 1), h[n])

\* C3: the repair removes exactly the assistant messages that have tool
\* calls and no tool message right after them; every other message stays,
\* in order, and no such assistant message is left.
C3_Repair ==
  pc # "start" =>
    /\ sess.messages = KeptUpTo(hist0, Len(hist0))
    /\ \A i \in 1..Len(sess.messages) : ~Dangling(sess.messages, i)

C3_Witness ==
  /\ pc # "start"
  /\ hist0 = <<UserMsg, CallMsg>>
  /\ sess.messages = <<UserMsg>>

\* C4: a run whose cancellation token was triggered, at whatever point, ends
\* with the session paused and saved, and returns the cancellation error.
C4_CancelPauses ==
  (pc = "returned" /\ cancelled) =>
    /\ sess.status = StatusPaused
    /\ stored = Snapshot(sess)
    /\ ret.err = ErrCanceled

LLMErrorReturns == {"LLM error: " \o e : e \in {"api error", ErrCanceled}}

\* C5: when the model client returns an error the run stops at that step:
\* the session is failed and saved, the error is returned, and the session
\* has the messages it had when the request was built.
C5_ModelError ==
  (pc = "returned" /\ ret.err \in LLMErrorReturns) =>
    /\ sess.status = StatusFailed
    /\ stored = Snapshot(sess)
    /\ buildRequest(sess.messages) = request
    /\ Len(responses) = llmCalls - 1

C5_Witness ==
  /\ pc = "returned"
  /\ ret.err = "LLM error: api error"
  /\ llmCalls = 2
  /\ stored.status = StatusFailed

RECURSIVE SumUsage(_)
SumUsage(rs) ==
  IF rs = <<>> THEN ZeroUsage
  ELSE LET rest == SumUsage(Tail(rs))
       IN Usage(Head(rs).usage.InputTokens + rest.InputTokens,
                Head(rs).usage.OutputTokens + rest.OutputTokens)

\* C6: a run that returns without error leaves the session completed and
\* returns as total usage the sum of the usages of its model calls.
C6_Usage ==
  (pc = "returned" /\ ret.err = NoErr) =>
    /\ sess.status = StatusCompleted
    /\ ret.usage = SumUsage(responses)

C6_Witness ==
  /\ pc = "returned"
  /\ ret.err = NoErr
  /\ Len(responses) = 2
  /\ ret.usage = Usage(7, 2)

\* C7: a run makes at most max_steps model calls, 50 when max_steps was left
\* at 0, and it returns.
C7_Terminates ==
  /\ [](llmCalls <= (IF cfgMaxSteps = 0 THEN 50 ELSE cfgMaxSteps))
  /\ <>(pc = "returned")

C7_Witness ==
  /\ pc = "returned"
  /\ cfgMaxSteps = 0
  /\ llmCalls = 50

\* The run reached the step limit: every permitted model call was made, the
\* last one asked for tools, and the token was not triggered.
HitStepLimit ==
  /\ pc = "returned"
  /\ ~cancelled
  /\ llmCalls = (IF cfgMaxSteps = 0 THEN 50 ELSE cfgMaxSteps)
  /\ Len(responses) = llmCalls
  /\ Len(Last(responses).calls) > 0

Max(S) == CHOOSE x \in S : \A y \in S : y <= x

AssistantIdx(h) == {i \in 1..Len(h) : h[i].role = "assistant"}

SpokenIdx(h) == {i \in AssistantIdx(h) : h[i].content # ""}

Terminal == {StatusCompleted, StatusFailed, StatusPaused}

\* C9: a created session becomes running at its first model call, and a
\* session enters a terminal status only from running.
C9_Lifecycle ==
  [][ /\ (sess.status = StatusCreated =>
            sess'.status \in {StatusCreated, StatusRunning})
      /\ (pc' = "llm" => sess'.status = StatusRunning)
      /\ ((sess'.status \in Terminal /\ sess'.status # sess.status) =>
            sess.status = StatusRunning) ]_vars

ToolFailed(res) == res.err # NoErr \/ ~res.success

ErrorText(res) == IF res.err # NoErr THEN res.err ELSE res.error

\* A step whose batch had a failing call has just been completed.
AfterFailingStep ==
  /\ pc = "top"
  /\ step > 0
  /\ \E k \in 1..Len(finished) : ToolFailed(finished[k].res)

\* C10: after a step with a failing tool call the loop has not failed: the
\* tool message holds for that call an error result with the error text, the
\* step is saved, the loop is at the top of its next step and the session is
\* not failed.
C10_ToolFailure ==
  AfterFailingStep =>
    /\ \A k \in 1..Len(finished) :
         ToolFailed(finished[k].res) =>
           LET tr == Last(sess.messages).toolResults[finished[k].idx]
           IN /\ tr.isError
              /\ tr.content = "Error: " \o ErrorText(finished[k].res)
    /\ stored = Snapshot(sess)
    /\ sess.status # StatusFailed

\* C11: a tool that panics in its goroutine does not take the batch down:
\* its call still gets an error result under its own id and the executor and
\* the loop go on.
C11_PanicTrapped ==
  \A r \in toolRuns :
    r.panicked =>
      /\ pc # "crashed"
      /\ results[r.idx].isError
      /\ results[r.idx].toolCallId = calls[r.idx].id

\* C12: when the batch is done there is one result per call, and every call
\* that ran after the token was triggered has an error result and has not
\* written its file.
C12_CancelAborts ==
  (pc = "tools" /\ pending = {}) =>
    /\ Len(results) = Len(calls)
    /\ \A r \in toolRuns : r.ctxDone => (results[r.idx].isError /\ ~r.wrote)

\* t is a firing of the schedule: second 0 of a minute whose fields match.
Fires(s, t) ==
  /\ Second(t) = 0
  /\ Minute(t) \in s.minute
  /\ Hour(t) \in s.hour
  /\ Date(t).month \in s.month
  /\ DayMatches(s, t)

\* No minute strictly between t and u is a firing, as far as an hour on.
NoFiringBetween(s, t, u) ==
  u - t <= 3600 =>
    \A m \in ((t \div 60) + 1)..((u - 1) \div 60) : m * 60 > t => ~Fires(s, m * 60)

\* r is what the claim says of cron_next(expr, t): a firing later than t.
LaterFiring(s, t, r) == r > t /\ Fires(s, r) /\ NoFiringBetween(s, t, r)

HasFiring(s) ==
  \/ ~s.domStar /\ ~s.dowStar
  \/ \E m \in s.month : \E d \in s.dom :
       d <= (IF m = 2 THEN 29 ELSE IF m \in {4, 6, 9, 11} THEN 30 ELSE 31)

C13_OncePerMissedFire ==
  \A i, j \in 1..Len(goroutines) :
    (/\ i # j
     /\ goroutines[i].kind = "wake"
     /\ goroutines[j].kind = "wake"
     /\ goroutines[i].job.id = goroutines[j].job.id)
      => goroutines[i].job.nextRunAt # goroutines[j].job.nextRunAt

\* The moment a job's next run is to be counted from: its last run, or its
\* creation when it has never run.
LastRunOrCreation(job) ==
  IF job.lastRunAt = NilTime THEN job.createdAt ELSE job.lastRunAt

\* C14: every next_run_at written for a job, at creation, at a schedule
\* change or after an execution, is at or after the moment it is written and
\* is the first firing of the job's schedule strictly after its last run (or
\* its creation).
C14_NextRunWritten ==
  [][\A id \in DOMAIN jobs' :
       (id \notin DOMAIN jobs \/ jobs'[id] # jobs[id])
         => /\ jobs'[id].nextRunAt >= now'
            /\ jobs'[id].nextRunAt =
                 calculateNextRun(jobs'[id].cron, LastRunOrCreation(jobs'[id]))]_vars

\* An execution record is finished: a terminal status and a finished_at.
ExecutionFinished(e) ==
  /\ executions[e].status \in {"success", "failed"}
  /\ executions[e].finishedAt # NilTime

ShuttingDown == sched.ctxDone \/ sched.stop # "idle"

\* C17: on shutdown, by the context or by Stop, the ticker is stopped and the
\* stop channel closed once the loop has ended, no further due-job check
\* starts an execution, and Stop returns only when every execution the
\* scheduler started has written its terminal record, each execution that
\* was under way having seen the cancellation.
C17_Shutdown ==
  /\ [](sched.loop = "exited"
          => sched.ticker = "stopped" /\ sched.stopChan = "closed")
  /\ [][ShuttingDown => Len(goroutines') = Len(goroutines)]_vars
  /\ [][ShuttingDown
          => \A i \in 1..Len(goroutines) :
               (goroutines[i].pc = "run" /\ goroutines'[i].pc = "done")
                 => goroutines'[i].ctxDone]_vars
  /\ [](sched.stop = "returned"
          => \A i \in 1..Len(goroutines) :
               goroutines[i].kind = "wake"
                 => /\ goroutines[i].pc = "done"
                    /\ ExecutionFinished(goroutines[i].execId))

C19_SessionOfExecution ==
  \A e \in DOMAIN executions :
    executions[e].sessionId # 0
      => /\ executions[e].sessionId \in DOMAIN sessions
         /\ sessions[executions[e].sessionId].agentId = "job-runner"
         /\ sessions[executions[e].sessionId].jobId = executions[e].jobId
         /\ \A f \in DOMAIN executions :
              executions[f].sessionId = executions[e].sessionId => f = e

\* C20: the session GetSession returns after SaveSession(s) equals s: the
\* same agent_id, parent_id, job_id, title, status and metadata, and the same
\* messages in the same order, messages of equal timestamp in the order they
\* were inserted.
C20_RoundTrip == loaded # <<>> => loaded = saved

\* The tables after a save of s on the tables pre: the session's row
\* upserted and its messages exactly those of s.
PostSave(pre, s) ==
  [sessions |-> Upsert(pre.sessions, s.id, SessionRow(RowOf(pre, s.id), s)),
   messages |-> Upsert(pre.messages, s.id, s.messages)]

\* C21: save_session is atomic under failure.  Wherever it fails or the
\* process dies, the store holds the complete state from before the save;
\* after the commit it holds the complete state after it; it never holds a
\* new session row with old messages or a part of the messages.
C21_SaveAtomic ==
  tx.pc # "none"
    => /\ tx.pc = "committed" => rows = PostSave(tx.pre, tx.s)
       /\ tx.pc # "committed" => rows = tx.pre

\* A save of a session that was stored with other messages has failed
\* between two message inserts.
C21_Witness ==
  /\ tx.pc = "rolledback"
  /\ tx.n = 1
  /\ Len(tx.s.messages) = 2
  /\ tx.s.id \in DOMAIN tx.pre.sessions
  /\ MessagesOf(tx.pre, tx.s.id) # <<>>
  /\ MessagesOf(tx.pre, tx.s.id) # tx.s.messages
  /\ tx.pre.sessions[tx.s.id].title # tx.s.title

\* C22: after delete_session(id), get_session(id) returns not found and the
\* store holds no message row for that session id.
C22_Deleted ==
  /\ \A id \in DOMAIN rows.messages \ DOMAIN rows.sessions :
       rows.messages[id] = <<>>
  /\ (loaded # <<>> /\ loaded.id \notin DOMAIN rows.sessions)
       => "err" \in DOMAIN loaded

\* C23: after each completed step of the loop and at every return from a
\* run, the session read back from the store has the status and the
\* messages, in their order, of the session the loop works on.
C23_StoreReflectsSession ==
  loaded # <<>> => loaded = [status |-> sess.status, messages |-> sess.messages]

\* C24: an answer that is not a valid five-field cron expression stores no
\* job: every job in the store has a schedule_cron the cron parser accepts
\* and a next_run_at.
C24_StoredJobsParse ==
  \A id \in DOMAIN jobs :
    /\ Parses(jobs[id].cron)
    /\ jobs[id].nextRunAt # NilTime

\* The positions at which sub occurs in s.
Occurrences(s, sub) == {i \in 1..Len(s) : MatchesAt(s, sub, i)}

\* C25: edit without replace_all succeeds exactly when old_string differs
\* from new_string and occurs exactly once in the file, and the file is then
\* the original with that occurrence replaced; otherwise the call fails and
\* the file is unchanged.
C25_EditOnce ==
  (toolCall.tool = "edit" /\ ~toolCall.replaceAll /\ toolCall.old # <<>>)
    => LET before == toolCall.before
           occ == Occurrences(before, toolCall.old)
       IN IF toolCall.old # toolCall.new /\ Cardinality(occ) = 1
          THEN /\ toolRes.success
               /\ \A i \in occ :
                    file = SubSeq(before, 1, i - 1) \o toolCall.new
                             \o SubSeq(before, i + Len(toolCall.old), Len(before))
          ELSE /\ ~toolRes.success
               /\ file = before

\* The lines of a file, as the line tools read it.
LinesOf(s) == splitLines(s).lines

\* A file ends with a newline.
EndsWithNewline(s) == s # <<>> /\ s[Len(s)] = "\n"

\* C26: a successful replace_lines(start, end, content) leaves a file of
\* original_lines - (end - start + 1) + lines_in(content) lines, with the
\* lines before start and after end unchanged; a call whose range is
\* inverted or exceeds the file's length fails and leaves the file as it was.
C26_ReplaceLinesCount ==
  toolCall.tool = "replace_lines"
    => LET old == LinesOf(toolCall.before)
           new == LinesOf(file)
           s == toolCall.startLine
           e == toolCall.endLine
           n == Len(LinesOf(toolCall.content))
       IN /\ (s > e \/ e > Len(old)) => (~toolRes.success /\ file = toolCall.before)
          /\ toolRes.success
               => /\ Len(new) = Len(old) - (e - s + 1) + n
                  /\ SubSeq(new, 1, s - 1) = SubSeq(old, 1, s - 1)
                  /\ SubSeq(new, s + n, Len(new)) = SubSeq(old, e + 1, Len(old))

\* C27: after a successful replace_lines a file that ended with a newline
\* still ends with one, unless the replacement left no line at all, and a
\* file that did not end with a newline does not end with one.
C27_TrailingNewlineKept ==
  (toolCall.tool = "replace_lines" /\ toolRes.success)
    => /\ EndsWithNewline(toolCall.before)
            => (EndsWithNewline(file) \/ LinesOf(file) = <<>>)
       /\ ~EndsWithNewline(toolCall.before) => ~EndsWithNewline(file)

\* C28: insert_lines puts the new lines right after line after_line and
\* keeps the original lines in their order: after_line 0 prepends, after_line
\* absent or -1 appends, and an after_line above the file's line count fails
\* and leaves the file as it was.
C28_InsertPosition ==
  (toolCall.tool = "insert_lines"
     /\ (toolCall.afterLine.present => toolCall.afterLine.value >= -1))
    => LET old == LinesOf(toolCall.before)
           ins == LinesOf(toolCall.content)
           at == IF ~toolCall.afterLine.present \/ toolCall.afterLine.value = -1
                 THEN Len(old) ELSE toolCall.afterLine.value
       IN IF at > Len(old)
          THEN ~toolRes.success /\ file = toolCall.before
          ELSE /\ toolRes.success
               /\ LinesOf(file) = SubSeq(old, 1, at) \o ins \o SubSeq(old, at + 1, Len(old))

\* The number of lines of the i-th file the pattern matches.
MatchingLines(i) == Cardinality({k \in 1..Len(file[i].lines) : file[i].lines[k]})

\* The lines "path: n" of the files from the i-th on that are searched and
\* have n >= 1 matching lines, in the order of the paths.
RECURSIVE ExpectedCounts(_)
ExpectedCounts(i) ==
  IF i > Len(GrepPaths) THEN <<>>
  ELSE IF ~file[i].binary /\ MatchingLines(i) >= 1
  THEN <<GrepPaths[i] \o ": " \o ToString(MatchingLines(i))>> \o ExpectedCounts(i + 1)
  ELSE ExpectedCounts(i + 1)

\* C29: in count mode grep outputs exactly one line "path: n" for each
\* searched file with n >= 1 matching lines, sorted by path, and no line for
\* a file without a match: all those lines when they are no more than
\* max_results (when no file matches at all the output is the notice
\* "No matches found").
C29_CountLines ==
  (/\ toolCall.tool = "grep"
   /\ ExpectedCounts(1) # <<>>
   /\ (toolCall.maxResults > 0 => Len(ExpectedCounts(1)) <= toolCall.maxResults))
    => toolRes.output = ExpectedCounts(1)

\* A goroutine is inside Register, holding the lock.
InRegister(p) == procs[p].pc \in {"write", "unlock"}

\* A goroutine is inside Get or GetDefinitions, holding the read lock.
InRead(p) == procs[p].pc \in {"read", "runlock"}

\* The tool registered last under a name.
LastRegistered(name) ==
  LET at == {i \in 1..Len(registered) : registered[i].name = name}
  IN registered[CHOOSE i \in at : \A j \in at : j <= i].id

\* C30: a Register never overlaps another Register nor a Get, an Execute
\* lookup or a GetDefinitions; a reader sees the registry as it was when it
\* took the lock, all through its read; and every name maps to the tool
\* registered last under it.
C30_RegistryLocked ==
  /\ \A p \in Procs :
       InRegister(p) => \A q \in Procs \ {p} : ~InRegister(q) /\ ~InRead(q)
  /\ \A p \in Procs :
       InRead(p)
         => /\ registry = procs[p].snap
            /\ procs[p].defs = {[name |-> n, id |-> procs[p].snap[n]] :
                                  n \in DOMAIN procs[p].snap \ procs[p].todo}
            /\ (procs[p].pc = "runlock" /\ procs[p].op # "defs")
                 => procs[p].tool = Lookup(procs[p].snap, procs[p].name)
  /\ \A p \in Procs :
       (InRegister(p) /\ procs[p].pc = "write") => registry = procs[p].snap
  /\ \A n \in DOMAIN registry :
       registry[n] = LastRegistered(n)

\* Two readers hold the lock at the same time, one of them in the middle of
\* GetDefinitions, after a name was registered a second time with another
\* tool.
C30_Witness ==
  /\ \E p, q \in Procs :
       /\ p # q
       /\ InRead(p) /\ InRead(q)
       /\ procs[p].op = "defs" /\ procs[p].defs # {} /\ procs[p].todo # {}
  /\ \E i, j \in 1..Len(registered) :
       i < j /\ registered[i].name = registered[j].name
             /\ registered[i].id # registered[j].id

\* The events of a log that are not assistant_delta events.
RECURSIVE WithoutDeltas(_)
WithoutDeltas(log) ==
  IF log = <<>> THEN <<>>
  ELSE (IF Head(log).type = "assistant_delta" THEN <<>> ELSE <<Head(log)>>)
         \o WithoutDeltas(Tail(log))

\* The events due for the steps from the k-th on, given the responses the
\* model gave: a step with tool calls emits tool_executing, tool_completed
\* and step_completed (the first alone while its tools are running), a step
\* without tool calls step_completed only.
RECURSIVE DueEvents(_)
DueEvents(k) ==
  IF k > Len(responses) THEN <<>>
  ELSE (IF responses[k].calls = <<>> THEN <<Event("step_completed", k)>>
        ELSE IF k = step /\ pc = "tools" THEN <<Event("tool_executing", k)>>
        ELSE <<Event("tool_executing", k), Event("tool_completed", k),
               Event("step_completed", k)>>)
         \o DueEvents(k + 1)

\* C31: with a callback, every step that uses tools emits tool_executing,
\* tool_completed and step_completed in that order with its step number, the
\* final step emits step_completed only, and on a client that does not
\* stream no assistant_delta is emitted.
C31_EventOrder ==
  onEvent
    => /\ WithoutDeltas(events) = DueEvents(1)
       /\ ~streaming => \A i \in 1..Len(events) : events[i].type # "assistant_delta"

\* A run with a callback on a client that does not stream has completed a
\* step with tools and then a final step.
C31_Witness ==
  /\ onEvent
  /\ ~streaming
  /\ pc = "returned"
  /\ Len(responses) = 2
  /\ responses[1].calls # <<>>
  /\ responses[2].calls = <<>>
  /\ Len(events) = 4

StoredMessagesOf(r, id) ==
  \E i \in 1..Len(chatStore[id]) : chatStore[id][i].request = r

\* C33: no two agent loops drive the same session at the same time, so no
\* run's messages are overwritten by another run's save: the messages of a
\* request that has been answered are in the stored session.
C33_OneLoopPerSession ==
  /\ \A r, q \in ChatRequests :
       (r # q /\ chatReqs[r].pc = "loop" /\ chatReqs[q].pc = "loop")
         => chatReqs[r].sessionID # chatReqs[q].sessionID
  /\ \A r \in ChatRequests :
       chatReqs[r].pc = "done" => StoredMessagesOf(r, chatReqs[r].sessionID)

\* C34: after every execution of a job by the scheduler, whatever its
\* outcome (success, agent failure, or failure to create the session), the
\* job is saved with last_run_at the execution's start and next_run_at the
\* first firing of its schedule after that start.
C34_JobSavedAfterExecution ==
  [][\A i \in 1..Len(goroutines) :
       (/\ goroutines[i].kind = "wake"
        /\ goroutines[i].pc # "done"
        /\ goroutines'[i].pc = "done")
         => LET g == goroutines'[i]
            IN /\ g.job.id \in DOMAIN jobs'
               /\ jobs'[g.job.id].lastRunAt = g.startedAt
               /\ jobs'[g.job.id].nextRunAt =
                    calculateNextRun(jobs'[g.job.id].cron, g.startedAt)]_vars

\* SaveSession that returns nil, on the tables db.
SavedOnce(db, s) ==
  InsertMessages(DeleteMessages(UpsertSession(db, s), s.id), s.id, s.messages, 1)

\* C35: a save that has committed leaves the store holding exactly the
\* messages of the saved session for its id, whatever an earlier save had
\* stored for it, and saving the same session once more changes nothing.
C35_SaveReplaces ==
  tx.pc = "committed"
    => /\ MessagesOf(rows, tx.s.id) = tx.s.messages
       /\ SavedOnce(rows, tx.s) = rows

\* A session stored with two messages has been saved again with the first
\* of them only: the second is gone from the store.
C35_Witness ==
  /\ tx.pc = "committed"
  /\ Len(MessagesOf(tx.pre, tx.s.id)) = 2
  /\ tx.s.messages = <<MessagesOf(tx.pre, tx.s.id)[1]>>
  /\ MessagesOf(rows, tx.s.id) = tx.s.messages

\* The files find_files is to list: the entries of the tree that are not
\* skipped, under the sort mode, at most max_results of them when
\* max_results is given.
FindExpected ==
  LET kept == Collected(file, Len(file))
      sorted == SortResults(kept, toolCall.sort)
      n == IF toolCall.maxResults > 0 /\ toolCall.maxResults < Len(sorted)
           THEN toolCall.maxResults ELSE Len(sorted)
  IN [i \in 1..n |-> FindPath(sorted[i].path)]

\* The page size of a call: 30 when none is given, 100 at most.
FindPageSize ==
  IF toolCall.pageSize <= 0 THEN 30
  ELSE IF toolCall.pageSize > 100 THEN 100 ELSE toolCall.pageSize

\* C36: the pages of find_files partition the filtered, sorted list: page p
\* holds its entries from (p-1)*size+1 to min(p*size, total), size being 30
\* by default and 100 at most; with more than one page the output names the
\* page and the page count; a page past the last one is reported as not
\* existing.
C36_PagesPartition ==
  toolCall.tool = "find_files"
    => LET p == IF toolCall.page <= 0 THEN 1 ELSE toolCall.page
           size == FindPageSize
           total == Len(FindExpected)
           pages == (total + size - 1) \div size
           last == IF p * size < total THEN p * size ELSE total
       IN IF total = 0 THEN toolRes.lines = <<>>
          ELSE IF p > pages
            THEN /\ toolRes.lines = <<>>
                 /\ toolRes.footer = "Page " \o ToString(p)
                      \o " does not exist. Total pages: " \o ToString(pages)
          ELSE /\ toolRes.lines = SubSeq(FindExpected, (p - 1) * size + 1, last)
               /\ pages > 1 =>
                    \E rest \in {"", "\nUse page=" \o ToString(p + 1) \o " for next page"} :
                      toolRes.footer =
                        "\n\nPage " \o ToString(p) \o " of " \o ToString(pages)
                          \o " (showing " \o ToString((p - 1) * size + 1) \o "-"
                          \o ToString(last) \o " of " \o ToString(total) \o " files)"
                          \o rest

\* C37: a change made to a job while one of its executions is under way, of
\* its schedule or its enabled flag, or its deletion, is still in the store
\* after the execution has finished and saved the job: the save at the end
\* of the execution leaves the schedule and the flag as the store has them
\* and does not bring a deleted job back.
C37_ChangesSurviveExecution ==
  [][\A i \in 1..Len(goroutines) :
       (goroutines[i].pc = "run" /\ goroutines'[i].pc = "done")
         => LET id == goroutines[i].job.id
            IN IF id \notin DOMAIN jobs THEN id \notin DOMAIN jobs'
               ELSE /\ id \in DOMAIN jobs'
                    /\ jobs'[id].cron = jobs[id].cron
                    /\ jobs'[id].enabled = jobs[id].enabled]_vars

\* C38: for every sequence of Start and Stop calls on one scheduler, a Start
\* while running and a Stop while stopped change nothing, no Stop panics,
\* and from each Start that took effect the loop goroutine is there to take
\* the ticks until the next Stop or the cancellation of the context.
C38_StartStop ==
  /\ [][(sched'.calls # sched.calls
           /\ sched'.calls[Len(sched'.calls)] \in {"start-noop", "stop-noop"})
          => /\ [sched' EXCEPT !.calls = sched.calls] = sched
             /\ UNCHANGED <<nextTick, goroutines>>]_vars
  /\ [][(sched'.calls # sched.calls /\ sched'.calls[Len(sched'.calls)] = "start")
          => ~sched.running]_vars
  /\ [][(sched'.calls # sched.calls /\ sched'.calls[Len(sched'.calls)] = "stop")
          => sched.running]_vars
  /\ [](sched.stop # "panicked")
  /\ []((sched.running /\ ~sched.ctxDone) => sched.loop = "running")

\* C39: AnswerQuestion succeeds only for a session whose status is
\* input_required: the stored session is then the one from before with the
\* pending question out of its metadata, the answer appended as a user
\* message and the status running, and a GetPendingQuestion after it returns
\* no question; for a session in any other status the call returns an error
\* and the store is as before.
C39_AnswerQuestion ==
  /\ (chatReqs.op = "AnswerQuestion" /\ chatReqs.sessionID \in DOMAIN chatStore)
       => LET id == chatReqs.sessionID
              old == chatReqs.before[id]
          IN IF old.status = StatusInputRequired
             THEN /\ chatReqs.err = NoErr
                  /\ chatStore[id].status = StatusRunning
                  /\ "pending_question" \notin DOMAIN chatStore[id].metadata
                  /\ \A k \in DOMAIN old.metadata \ {"pending_question"} :
                       /\ k \in DOMAIN chatStore[id].metadata
                       /\ chatStore[id].metadata[k] = old.metadata[k]
                  /\ Len(chatStore[id].messages) = Len(old.messages) + 1
                  /\ SubSeq(chatStore[id].messages, 1, Len(old.messages)) = old.messages
                  /\ chatStore[id].messages[Len(old.messages) + 1].role = "user"
                  /\ chatStore[id].messages[Len(old.messages) + 1].content \in Answers
                  /\ \A other \in DOMAIN chatStore \ {id} :
                       chatStore[other] = chatReqs.before[other]
             ELSE /\ chatReqs.err # NoErr
                  /\ chatStore = chatReqs.before
  /\ (/\ chatReqs.op = "GetPendingQuestion"
      /\ chatReqs.prev.op = "AnswerQuestion"
      /\ chatReqs.prev.sessionID = chatReqs.sessionID
      /\ chatReqs.prev.err = NoErr)
       => chatReqs.err = NoErr /\ chatReqs.question = "nil"

\* A session that waited for input with a question and another metadata key
\* has been answered, and GetPendingQuestion has been called for it right
\* after.
C39_Witness ==
  /\ chatReqs.op = "GetPendingQuestion"
  /\ chatReqs.sessionID = "s1"
  /\ chatReqs.prev = [op |-> "AnswerQuestion", sessionID |-> "s1", err |-> NoErr]
  /\ chatReqs.question = "nil"
  /\ chatStore["s1"].status = StatusRunning
  /\ chatStore["s1"].metadata = [source |-> "cli"]
  /\ Len(chatStore["s1"].messages) = 2

====
